---- MODULE Spec2Model ----
(***************************************************************************)
(* Cryptographic-Suite: a model of the library's primitives (AES with its  *)
(* CBC/CTR/OFB drivers and PKCS#7 padding, RSA-OAEP with its big-integer    *)
(* arithmetic) as they are written in the TypeScript sources.               *)
(*                                                                         *)
(* Representation.  A Uint8Array is a sequence of bytes (0..255).  A        *)
(* Uint32 is a 4-tuple of bytes, most significant first, so that the       *)
(* shifts and masks of the source become selections of tuple components.   *)
(* A JavaScript string that the code only reads with charCodeAt is the      *)
(* sequence of its character codes.                                         *)
(***************************************************************************)
EXTENDS Integers, Sequences, FiniteSets, Bags, TLC

VARIABLES
  pc,      \* position of the caller: which call has last returned
  req,     \* the caller's inputs: a record
  res,     \* what the first call returned or threw, or NoResult
  res2     \* what the second call returned or threw, or NoResult

vars == <<pc, req, res, res2>>

NoResult == [tag |-> "none"]

\* ------------------------------------------------------------------------
\* Bit operations of the language on bytes

RECURSIVE BitXor(_, _, _)
BitXor(a, b, n) ==
  IF n = 0 THEN 0
  ELSE ((a + b) % 2) + 2 * BitXor(a \div 2, b \div 2, n - 1)

\* a ^ b on bytes, tabulated once
XorTab == [a \in 0..255 |-> [b \in 0..255 |-> BitXor(a, b, 8)]]

Xor(a, b) == XorTab[a][b]

\* the seq[from, to) view of a typed array (subarray / slice), 0-based
\* a function on 1..n as an evaluated tuple
Tup(f) == f \o <<>>

Sub(s, from, to) == SubSeq(s, from + 1, IF to < Len(s) THEN to ELSE Len(s))

Fill(n, b) == Tup([i \in 1..n |-> b])

Min(a, b) == IF a < b THEN a ELSE b

\* s := Op(s, i) for i = lo .. hi, s a tuple.  The range is halved so that
\* the evaluation stays shallow; the result is that of the plain loop.
RECURSIVE For(_, _, _, _)
For(Op(_, _), s, lo, hi) ==
  IF lo > hi THEN s
  ELSE IF lo = hi THEN Op(s, lo)
  ELSE LET mid == (lo + hi) \div 2
           t == For(Op, s, lo, mid)
       IN  IF Len(t) >= 0 THEN For(Op, t, mid + 1, hi) ELSE t

\* ------------------------------------------------------------------------
\* AES core (tables)

SBOX ==
  <<
    99, 124, 119, 123, 242, 107, 111, 197, 48, 1, 103, 43, 254, 215, 171, 118,
    202, 130, 201, 125, 250, 89, 71, 240, 173, 212, 162, 175, 156, 164, 114, 192,
    183, 253, 147, 38, 54, 63, 247, 204, 52, 165, 229, 241, 113, 216, 49, 21,
    4, 199, 35, 195, 24, 150, 5, 154, 7, 18, 128, 226, 235, 39, 178, 117,
    9, 131, 44, 26, 27, 110, 90, 160, 82, 59, 214, 179, 41, 227, 47, 132,
    83, 209, 0, 237, 32, 252, 177, 91, 106, 203, 190, 57, 74, 76, 88, 207,
    208, 239, 170, 251, 67, 77, 51, 133, 69, 249, 2, 127, 80, 60, 159, 168,
    81, 163, 64, 143, 146, 157, 56, 245, 188, 182, 218, 33, 16, 255, 243, 210,
    205, 12, 19, 236, 95, 151, 68, 23, 196, 167, 126, 61, 100, 93, 25, 115,
    96, 129, 79, 220, 34, 42, 144, 136, 70, 238, 184, 20, 222, 94, 11, 219,
    224, 50, 58, 10, 73, 6, 36, 92, 194, 211, 172, 98, 145, 149, 228, 121,
    231, 200, 55, 109, 141, 213, 78, 169, 108, 86, 244, 234, 101, 122, 174, 8,
    186, 120, 37, 46, 28, 166, 180, 198, 232, 221, 116, 31, 75, 189, 139, 138,
    112, 62, 181, 102, 72, 3, 246, 14, 97, 53, 87, 185, 134, 193, 29, 158,
    225, 248, 152, 17, 105, 217, 142, 148, 155, 30, 135, 233, 206, 85, 40, 223,
    140, 161, 137, 13, 191, 230, 66, 104, 65, 153, 45, 15, 176, 84, 187, 22
  >>

INV_SBOX ==
  <<
    82, 9, 106, 213, 48, 54, 165, 56, 191, 64, 163, 158, 129, 243, 215, 251,
    124, 227, 57, 130, 155, 47, 255, 135, 52, 142, 67, 68, 196, 222, 233, 203,
    84, 123, 148, 50, 166, 194, 35, 61, 238, 76, 149, 11, 66, 250, 195, 78,
    8, 46, 161, 102, 40, 217, 36, 178, 118, 91, 162, 73, 109, 139, 209, 37,
    114, 248, 246, 100, 134, 104, 152, 22, 212, 164, 92, 204, 93, 101, 182, 146,
    108, 112, 72, 80, 253, 237, 185, 218, 94, 21, 70, 87, 167, 141, 157, 132,
    144, 216, 171, 0, 140, 188, 211, 10, 247, 228, 88, 5, 184, 179, 69, 6,
    208, 44, 30, 143, 202, 63, 15, 2, 193, 175, 189, 3, 1, 19, 138, 107,
    58, 145, 17, 65, 79, 103, 220, 234, 151, 242, 207, 206, 240, 180, 230, 115,
    150, 172, 116, 34, 231, 173, 53, 133, 226, 249, 55, 232, 28, 117, 223, 110,
    71, 241, 26, 113, 29, 41, 197, 137, 111, 183, 98, 14, 170, 24, 190, 27,
    252, 86, 62, 75, 198, 210, 121, 32, 154, 219, 192, 254, 120, 205, 90, 244,
    31, 221, 168, 51, 136, 7, 199, 49, 177, 18, 16, 89, 39, 128, 236, 95,
    96, 81, 127, 169, 25, 181, 74, 13, 45, 229, 122, 159, 147, 201, 156, 239,
    160, 224, 59, 77, 174, 42, 245, 176, 200, 235, 187, 60, 131, 83, 153, 97,
    23, 43, 4, 126, 186, 119, 214, 38, 225, 105, 20, 99, 85, 33, 12, 125
  >>

RCON ==
  <<
    1, 2, 4, 8, 16, 32, 64, 128, 27, 54
  >>
\* ------------------------------------------------------------------------
\* AES core (words are <<b24, b16, b8, b0>>)

XorWord(x, y) == [j \in 1..4 |-> Xor(x[j], y[j])] \o <<>>

SubWord(x) == [j \in 1..4 |-> SBOX[x[j] + 1]] \o <<>>

InvSubWord(x) == [j \in 1..4 |-> INV_SBOX[x[j] + 1]] \o <<>>

RotWord(x) == <<x[2], x[3], x[4], x[1]>>

\* one iteration of the second loop of keyExpansion: the word w[i], i 0-based
KeyExpansionWord(w, i, nk) ==
  LET temp0 == w[i]          \* w[i - 1], 1-based
      temp  == IF i % nk = 0
                 THEN XorWord(SubWord(RotWord(temp0)),
                              <<RCON[(i \div nk) - 1 + 1], 0, 0, 0>>)
                 ELSE IF nk > 6 /\ i % nk = 4
                        THEN SubWord(temp0)
                        ELSE temp0
  IN  XorWord(w[i - nk + 1], temp)

keyExpansion(key) ==
  LET keyLen == Len(key)
      nb == 4
      nk == keyLen \div 4
      nr == nk + 6
      w0 == Tup([i \in 1..nk |->
               <<key[4*(i-1) + 1], key[4*(i-1) + 2], key[4*(i-1) + 3], key[4*(i-1) + 4]>>])
      Step(w, i) == Append(w, KeyExpansionWord(w, i, nk))
  IN  For(Step, w0, nk, nb * (nr + 1) - 1)

\* bytes -> state words, and back
LoadState(input) ==
  Tup([i \in 1..4 |->
        <<input[4*(i-1) + 1], input[4*(i-1) + 2], input[4*(i-1) + 3], input[4*(i-1) + 4]>>])

StoreState(state) == state[1] \o state[2] \o state[3] \o state[4]

\* state[i] ^= w[round * 4 + i]
AddRoundKey(state, w, round) == [i \in 1..4 |-> XorWord(state[i], w[round * 4 + i])] \o <<>>

subBytes(state) == [i \in 1..4 |-> SubWord(state[i])] \o <<>>

invSubBytes(state) == [i \in 1..4 |-> InvSubWord(state[i])] \o <<>>

shiftRows(state) ==
  LET t0 == state[1] t1 == state[2] t2 == state[3] t3 == state[4]
  IN  << <<t0[1], t1[2], t2[3], t3[4]>>,
         <<t1[1], t2[2], t3[3], t0[4]>>,
         <<t2[1], t3[2], t0[3], t1[4]>>,
         <<t3[1], t0[2], t1[3], t2[4]>> >>

invShiftRows(state) ==
  LET t0 == state[1] t1 == state[2] t2 == state[3] t3 == state[4]
  IN  << <<t0[1], t3[2], t2[3], t1[4]>>,
         <<t1[1], t0[2], t3[3], t2[4]>>,
         <<t2[1], t1[2], t0[3], t3[4]>>,
         <<t3[1], t2[2], t1[3], t0[4]>> >>

RECURSIVE gmulLoop(_, _, _, _)
gmulLoop(a, b, p, i) ==
  IF i = 8 THEN p
  ELSE LET p1 == IF b % 2 # 0 THEN Xor(p, a) ELSE p
           hiBitSet == (a \div 128) % 2 # 0
           a1 == (a * 2) % 256
           a2 == IF hiBitSet THEN Xor(a1, 27) ELSE a1
       IN  gmulLoop(a2, b \div 2, p1, i + 1)

gmul(a, b) == gmulLoop(a, b, 0, 0)

\* gmul for the multipliers the column mixes use, tabulated once
GmulTab == [b \in {2, 3, 9, 11, 13, 14} |-> [a \in 0..255 |-> gmul(a, b)]]

\* a term of a column mix: gmul(a, m), or a itself where the source writes
\* the byte without a multiplier (m = 1)
Term(a, m) == IF m = 1 THEN a ELSE GmulTab[m][a]

\* d0 .. d3 of a column mix, rows[r] holding the multipliers of s0 .. s3 in d(r-1)
MixWith(rows, s) ==
  [r \in 1..4 |->
     Xor(Xor(Term(s[1], rows[r][1]), Term(s[2], rows[r][2])),
         Xor(Term(s[3], rows[r][3]), Term(s[4], rows[r][4])))] \o <<>>

\* mutant: d3 with gmul(s0, 2) for gmul(s0, 3)
mixColumnWrongRow(s) ==
  MixWith(<< <<2, 3, 1, 1>>, <<1, 2, 3, 1>>, <<1, 1, 2, 3>>, <<2, 1, 1, 2>> >>, s)

\* the body of the loop of mixColumns
mixColumn(s) ==
  MixWith(<< <<2, 3, 1, 1>>, <<1, 2, 3, 1>>, <<1, 1, 2, 3>>, <<3, 1, 1, 2>> >>, s)

mixColumns(state) == [i \in 1..4 |-> mixColumn(state[i])] \o <<>>

\* the body of the loop of invMixColumns
invMixColumn(s) ==
  MixWith(<< <<14, 11, 13, 9>>, <<9, 14, 11, 13>>, <<13, 9, 14, 11>>, <<11, 13, 9, 14>> >>, s)

invMixColumns(state) == [i \in 1..4 |-> invMixColumn(state[i])] \o <<>>

aesBlockEncrypt(input, w) ==
  LET nb == 4
      nr == (Len(w) \div nb) - 1
      s0 == AddRoundKey(LoadState(input), w, 0)
      Round(state, round) == AddRoundKey(mixColumns(shiftRows(subBytes(state))), w, round)
      s1 == For(Round, s0, 1, nr - 1)
      s2 == AddRoundKey(shiftRows(subBytes(s1)), w, nr)
  IN  StoreState(s2)

aesBlockDecrypt(input, w) ==
  LET nb == 4
      nr == (Len(w) \div nb) - 1
      s0 == AddRoundKey(LoadState(input), w, nr)
      \* round = nr - 1 down to 1
      Round(state, k) ==
        invMixColumns(AddRoundKey(invSubBytes(invShiftRows(state)), w, nr - k))
      s1 == For(Round, s0, 1, nr - 1)
      s2 == AddRoundKey(invSubBytes(invShiftRows(s1)), w, 0)
  IN  StoreState(s2)

\* ------------------------------------------------------------------------
\* Base64 (text is the sequence of its character codes)

\* "ABCDEFGHIJKLMNOPQRSTUVWXYZabcdefghijklmnopqrstuvwxyz0123456789+/"
Base64Chars ==
  Tup([i \in 1..64 |->
        IF i <= 26 THEN 64 + i
        ELSE IF i <= 52 THEN 96 + (i - 26)
        ELSE IF i <= 62 THEN 47 + (i - 52)
        ELSE IF i = 63 THEN 43 ELSE 47])

PadChar == 61

\* lookup[c]: the table is zero wherever the loop over chars did not write
Base64LookupTab ==
  [c \in 0..255 |->
     IF \E i \in 1..64 : Base64Chars[i] = c
       THEN (CHOOSE i \in 1..64 : Base64Chars[i] = c) - 1
       ELSE 0]

Base64Lookup(c) == IF c \in 0..255 THEN Base64LookupTab[c] ELSE 0

\* arrayBufferToBase64 of the RSA file: three bytes to four characters
arrayBufferToBase64(bytes) ==
  LET len == Len(bytes)
      At(i) == IF i < len THEN bytes[i + 1] ELSE 0
      Group(g) ==
        LET i  == 3 * g
            b1 == At(i) b2 == At(i + 1) b3 == At(i + 2)
            e1 == b1 \div 4
            e2 == (b1 % 4) * 16 + (b2 \div 16)
            e3 == (b2 % 16) * 4 + (b3 \div 64)
            e4 == b3 % 64
        IN  << Base64Chars[e1 + 1], Base64Chars[e2 + 1],
               IF i + 1 < len THEN Base64Chars[e3 + 1] ELSE PadChar,
               IF i + 2 < len THEN Base64Chars[e4 + 1] ELSE PadChar >>
      n == (len + 2) \div 3
  IN  Tup([j \in 1..(4 * n) |-> Group((j - 1) \div 4)[((j - 1) % 4) + 1]])

\* window.btoa of the binary string of the bytes: the standard encoding,
\* which is what the loop of arrayBufferToBase64 writes
bytesToBase64(bytes) == arrayBufferToBase64(bytes)

\* base64.replace(/[=]+$/, '')
StripPadding(s) ==
  LET Step(n, k) == IF n[1] = Len(s) - k + 1 /\ s[n[1]] = PadChar THEN <<n[1] - 1>> ELSE n
  IN  SubSeq(s, 1, For(Step, <<Len(s)>>, 1, Len(s))[1])

\* The loop writes bytes[p++] group by group; a write past bufferLength is
\* dropped by the typed array, and a charCodeAt past the end reads as 0.
base64ToBytes(base64) ==
  LET Decode(s) ==
        LET len == Len(s)
            bufferLength == (len * 3) \div 4
            Enc(j) == IF j < len THEN Base64Lookup(s[j + 1]) ELSE 0
            Byte(p) ==
              LET i == 4 * (p \div 3)
                  r == p % 3
              IN  IF r = 0 THEN (Enc(i) * 4 + (Enc(i + 1) \div 16)) % 256
                  ELSE IF r = 1 THEN ((Enc(i + 1) % 16) * 16 + (Enc(i + 2) \div 4)) % 256
                  ELSE ((Enc(i + 2) % 4) * 64 + (Enc(i + 3) % 64)) % 256
        IN  Tup([q \in 1..bufferLength |-> Byte(q - 1)])
  IN  Decode(StripPadding(base64))

\* ------------------------------------------------------------------------
\* PKCS#7

pkcs7Pad(data) ==
  LET padLen == 16 - (Len(data) % 16)
  IN  data \o Fill(padLen, padLen)

\* [err, out]
pkcs7Unpad(data) ==
  IF Len(data) = 0 THEN [err |-> "", out |-> data]
  ELSE LET padLen == data[Len(data)]
       IN  IF padLen = 0 \/ padLen > 16
             THEN [err |-> "InvalidPadding", out |-> <<>>]
           ELSE IF \E i \in 0..(padLen - 1) : data[Len(data) - i] # padLen
             THEN [err |-> "InvalidPaddingBytes", out |-> <<>>]
           ELSE [err |-> "", out |-> SubSeq(data, 1, Len(data) - padLen)]

xorBlocks(a, b) == Tup([i \in 1..16 |-> Xor(a[i], b[i])])

\* ------------------------------------------------------------------------
\* Modes of operation.  Each driver returns its output with the calls it
\* made, in order (trace), so that what ran before what can be stated.

Block(data, i) == SubSeq(data, i + 1, Min(i + 16, Len(data)))

modeCBCEncrypt(plaintext, key, iv) ==
  LET padded == pkcs7Pad(plaintext)
      expandedKey == keyExpansion(key)
      Chain(s, encryptedBlock) == <<encryptedBlock, s[2] \o encryptedBlock>>
      Step(s, b) ==
        LET block == Block(padded, 16 * b)
            inputBlock == xorBlocks(block, s[1])
        IN  Chain(s, aesBlockEncrypt(inputBlock, expandedKey))
      nblocks == Len(padded) \div 16
  IN  [err |-> "",
       out |-> For(Step, <<iv, <<>> >>, 0, nblocks - 1)[2],
       trace |-> <<"keyExpansion">> \o Fill(nblocks, "aesBlockEncrypt"),
       iv |-> iv]

modeCBCDecrypt(ciphertext, key, iv) ==
  IF Len(ciphertext) % 16 # 0
    THEN [err |-> "InvalidCiphertextLength", out |-> <<>>, trace |-> <<>>,
          stream |-> <<>>, iv |-> iv]
  ELSE
    LET expandedKey == keyExpansion(key)
        Step(s, b) ==
          LET block == Block(ciphertext, 16 * b)
              decryptedBlock == aesBlockDecrypt(block, expandedKey)
              plainBlock == xorBlocks(decryptedBlock, s[1])
          IN  <<block, s[2] \o plainBlock>>
        nblocks == Len(ciphertext) \div 16
        Return(output, unpadded) ==
          [err |-> unpadded.err,
           out |-> unpadded.out,
           trace |-> <<"keyExpansion">> \o Fill(nblocks, "aesBlockDecrypt"),
           stream |-> output,
           iv |-> iv]
        Unpad(output) == Return(output, pkcs7Unpad(output))
    IN  Unpad(For(Step, <<iv, <<>> >>, 0, nblocks - 1)[2])

\* mutant: the increment without its carry
IncrementLastByteOnly(counter) == [counter EXCEPT ![16] = (counter[16] + 1) % 256]

\* for (k = 15; k >= 0; k--) { counter[k]++; if (counter[k] !== 0) break; }
IncrementCounter(counter) ==
  LET Step(s, j) ==
        LET k == 16 - j      \* the 1-based place of byte 15, 14, ...
        IN  IF s[2] THEN s
            ELSE LET v == (s[1][k] + 1) % 256
                 IN  <<[s[1] EXCEPT ![k] = v], v # 0>>
  IN  For(Step, <<counter, FALSE>>, 0, 15)[1]

\* const counter = new Uint8Array(iv): a buffer of its own, holding a copy
CounterBuffer(iv) == [bytes |-> iv, sharedWithIv |-> FALSE]

modeCTREncrypt(data, key, iv) ==
  LET expandedKey == keyExpansion(key)
      counter0 == CounterBuffer(iv)
      OutBlock(i, keyStream) ==
        Tup([j \in 1..Min(16, Len(data) - i) |-> Xor(data[i + j], keyStream[j])])
      Step(s, b) ==
        <<IncrementCounter(s[1]),
          s[2] \o OutBlock(16 * b, aesBlockEncrypt(s[1], expandedKey)),
          Append(s[3], s[1])>>
      nblocks == (Len(data) + 15) \div 16
      Return(final) ==
        [err |-> "",
         out |-> final[2],
         trace |-> <<"keyExpansion">> \o Fill(nblocks, "aesBlockEncrypt"),
         counters |-> final[3],
         iv |-> IF counter0.sharedWithIv THEN final[1] ELSE iv]
  IN  Return(For(Step, <<counter0.bytes, <<>>, <<>> >>, 0, nblocks - 1))

\* mutant: the first keystream block is the IV itself, encrypted only from
\* the second block on
modeOFBFeedbackFirst(data, key, iv) ==
  LET expandedKey == keyExpansion(key)
      OutBlock(i, keyStream) ==
        Tup([j \in 1..Min(16, Len(data) - i) |-> Xor(data[i + j], keyStream[j])])
      Step(s, b) == <<aesBlockEncrypt(s[1], expandedKey), s[2] \o OutBlock(16 * b, s[1])>>
      nblocks == (Len(data) + 15) \div 16
  IN  [err |-> "",
       out |-> For(Step, <<iv, <<>> >>, 0, nblocks - 1)[2],
       trace |-> <<"keyExpansion">> \o Fill(nblocks, "aesBlockEncrypt"),
       iv |-> iv]

modeOFBEncrypt(data, key, iv) ==
  LET expandedKey == keyExpansion(key)
      Feed(s, i, keyStream) ==
        <<keyStream,
          s[2] \o Tup([j \in 1..Min(16, Len(data) - i) |-> Xor(data[i + j], keyStream[j])])>>
      Step(s, b) == Feed(s, 16 * b, aesBlockEncrypt(s[1], expandedKey))
      nblocks == (Len(data) + 15) \div 16
  IN  [err |-> "",
       out |-> For(Step, <<iv, <<>> >>, 0, nblocks - 1)[2],
       trace |-> <<"keyExpansion">> \o Fill(nblocks, "aesBlockEncrypt"),
       iv |-> iv]

\* ------------------------------------------------------------------------
\* Validation and the exported calls

\* mutant: the two checks in the other order
validateIVThenKey(key, iv) ==
  IF Len(iv) # 16 THEN "InvalidIVLength"
  ELSE IF Len(key) \notin {16, 24, 32} THEN "InvalidKeyLength"
  ELSE ""

\* "" when both lengths pass, else the error thrown
validateKeyAndIV(key, iv) ==
  IF Len(key) \notin {16, 24, 32} THEN "InvalidKeyLength"
  ELSE IF Len(iv) # 16 THEN "InvalidIVLength"
  ELSE ""

\* modeName.toUpperCase(), on the mode names the callers use
ToUpperCase(modeName) ==
  CASE modeName = "cbc" -> "CBC"
    [] modeName = "ctr" -> "CTR"
    [] modeName = "ofb" -> "OFB"
    [] OTHER -> modeName

\* ------------------------------------------------------------------------
\* Strings are sequences of UTF-16 code units, byte arrays sequences of 0..255

ReplacementChar == 65533                       \* U+FFFD
ByteOrderMark == 65279                         \* U+FEFF
IsHighSurrogate(c) == c >= 55296 /\ c <= 56319 \* D800..DBFF
IsLowSurrogate(c) == c >= 56320 /\ c <= 57343  \* DC00..DFFF

\* the UTF-8 bytes of one code point
Utf8Of(cp) ==
  IF cp < 128 THEN <<cp>>
  ELSE IF cp < 2048 THEN <<192 + (cp \div 64), 128 + (cp % 64)>>
  ELSE IF cp < 65536 THEN <<224 + (cp \div 4096), 128 + ((cp \div 64) % 64), 128 + (cp % 64)>>
  ELSE <<240 + (cp \div 262144), 128 + ((cp \div 4096) % 64), 128 + ((cp \div 64) % 64),
         128 + (cp % 64)>>

\* new TextEncoder().encode(str): a surrogate pair is one code point, a
\* surrogate on its own is encoded as U+FFFD
stringToUtf8Bytes(str) ==
  LET Step(s, i) ==
        LET c == str[i]
        IN  IF s[2] THEN <<s[1], FALSE>>
            ELSE IF IsHighSurrogate(c) /\ i < Len(str) /\ IsLowSurrogate(str[i + 1])
              THEN <<s[1] \o Utf8Of(65536 + ((c - 55296) * 1024) + (str[i + 1] - 56320)), TRUE>>
            ELSE IF IsHighSurrogate(c) \/ IsLowSurrogate(c)
              THEN <<s[1] \o Utf8Of(ReplacementChar), FALSE>>
            ELSE <<s[1] \o Utf8Of(c), FALSE>>
  IN  For(Step, <<<<>>, FALSE>>, 1, Len(str))[1]

\* the code units of one decoded code point
Utf16Of(cp) ==
  IF cp < 65536 THEN <<cp>>
  ELSE <<55296 + ((cp - 65536) \div 1024), 56320 + ((cp - 65536) % 1024)>>

\* decoder state <<output, code point, bytes seen, bytes needed, lower, upper>>
DecoderStart(out) == <<out, 0, 0, 0, 128, 191>>

\* a byte met when no sequence is open
DecodeLead(out, b) ==
  IF b <= 127 THEN DecoderStart(Append(out, b))
  ELSE IF b >= 194 /\ b <= 223 THEN <<out, b - 192, 0, 1, 128, 191>>
  ELSE IF b >= 224 /\ b <= 239
    THEN <<out, b - 224, 0, 2, IF b = 224 THEN 160 ELSE 128, IF b = 237 THEN 159 ELSE 191>>
  ELSE IF b >= 240 /\ b <= 244
    THEN <<out, b - 240, 0, 3, IF b = 240 THEN 144 ELSE 128, IF b = 244 THEN 143 ELSE 191>>
  ELSE DecoderStart(Append(out, ReplacementChar))

DecodeByte(s, b) ==
  IF s[4] = 0 THEN DecodeLead(s[1], b)
  ELSE IF b < s[5] \/ b > s[6] THEN DecodeLead(Append(s[1], ReplacementChar), b)
  ELSE LET cp == s[2] * 64 + (b - 128)
       IN  IF s[3] + 1 = s[4] THEN DecoderStart(s[1] \o Utf16Of(cp))
           ELSE <<s[1], cp, s[3] + 1, s[4], 128, 191>>

\* new TextDecoder().decode(bytes): UTF-8, not fatal, a leading byte order
\* mark dropped, every malformed sequence replaced by U+FFFD
utf8BytesToString(bytes) ==
  LET hasBom == Len(bytes) >= 3 /\ bytes[1] = 239 /\ bytes[2] = 187 /\ bytes[3] = 191
      first == IF hasBom THEN 4 ELSE 1
      Step(s, i) == DecodeByte(s, bytes[i])
      end == For(Step, DecoderStart(<<>>), first, Len(bytes))
  IN  IF end[4] # 0 THEN Append(end[1], ReplacementChar) ELSE end[1]

NoRun == [err |-> "", out |-> <<>>, trace |-> <<>>]

Thrown(e, tr) == [err |-> e, out |-> <<>>, trace |-> tr, run |-> NoRun]

\* aesEncrypt: out is the Base64 text returned, run what the mode function did
aesEncrypt(plaintext, key, iv, modeName) ==
  LET keyBytes == stringToUtf8Bytes(key)
      ivBytes == stringToUtf8Bytes(iv)
      plainBytes == stringToUtf8Bytes(plaintext)
      invalid == validateKeyAndIV(keyBytes, ivBytes)
      mode == ToUpperCase(modeName)
      Return(r) ==
        [err |-> r.err, out |-> bytesToBase64(r.out),
         trace |-> <<"validateKeyAndIV">> \o r.trace, run |-> r]
  IN  IF invalid # "" THEN Thrown(invalid, <<"validateKeyAndIV">>)
      ELSE IF mode \notin {"CBC", "CTR", "OFB"}
        THEN Thrown("UnsupportedMode", <<"validateKeyAndIV">>)
      ELSE Return(CASE mode = "CBC" -> modeCBCEncrypt(plainBytes, keyBytes, ivBytes)
                    [] mode = "CTR" -> modeCTREncrypt(plainBytes, keyBytes, ivBytes)
                    [] mode = "OFB" -> modeOFBEncrypt(plainBytes, keyBytes, ivBytes))

\* aesDecrypt: out is the text returned, run what the mode function did
aesDecrypt(ciphertext, key, iv, modeName) ==
  LET keyBytes == stringToUtf8Bytes(key)
      ivBytes == stringToUtf8Bytes(iv)
      cipherBytes == base64ToBytes(ciphertext)
      invalid == validateKeyAndIV(keyBytes, ivBytes)
      mode == ToUpperCase(modeName)
      pre == <<"base64ToBytes", "validateKeyAndIV">>
      Return(r) ==
        [err |-> r.err,
         out |-> IF r.err = "" THEN utf8BytesToString(r.out) ELSE <<>>,
         trace |-> pre \o r.trace, run |-> r]
  IN  IF invalid # "" THEN Thrown(invalid, pre)
      ELSE IF mode \notin {"CBC", "CTR", "OFB"} THEN Thrown("UnsupportedMode", pre)
      ELSE Return(CASE mode = "CBC" -> modeCBCDecrypt(cipherBytes, keyBytes, ivBytes)
                    [] mode = "CTR" -> modeCTREncrypt(cipherBytes, keyBytes, ivBytes)
                    [] mode = "OFB" -> modeOFBEncrypt(cipherBytes, keyBytes, ivBytes))

\* ------------------------------------------------------------------------
\* The callers of the AES library: what they pass in

\* longest plaintext, in characters
MaxMsgLen == 33

Pattern(n, a, b) == Tup([i \in 1..n |-> (a * i + b) % 256])

FipsKey == Pattern(16, 1, 255)                 \* 00 01 02 .. 0f
FipsKey192 == Pattern(24, 1, 255)              \* 00 01 02 .. 17
FipsKey256 == Pattern(32, 1, 255)              \* 00 01 02 .. 1f
FipsBlock == Pattern(16, 17, 239)              \* 00 11 22 .. ff
FipsCipher == <<105, 196, 224, 216, 106, 123, 4, 48, 216, 205, 183, 128, 112, 180, 197, 90>>

\* key strings: code units below 128 are one byte each, U+00E9 is two bytes
KeyAccented == Fill(8, 233)
AesValidKeys == {FipsKey, FipsKey192, FipsKey256, KeyAccented}
AesKeys == AesValidKeys \cup {Pattern(15, 1, 64), Pattern(17, 1, 64), <<>>,
                              Pattern(15, 1, 64) \o <<233>>}

IvText == Pattern(16, 1, 47)                   \* "0123456789:;<=>?"
IvAccented == Fill(8, 233)
AesValidIVs == {IvText, IvAccented}
AesIVs == AesValidIVs \cup {Pattern(15, 1, 47), Pattern(17, 1, 47)}

\* counter blocks given to modeCTREncrypt as bytes
IvAllFF == Fill(16, 255)
IvCarry == Fill(14, 0) \o <<255, 255>>
IvLow == Fill(15, 255) \o <<254>>
IvMiddle == Fill(7, 18) \o <<1>> \o Fill(8, 255)
CounterIVs == {IvText, IvAllFF, IvCarry, IvLow, IvMiddle}

AesModes == {"CBC", "CTR", "OFB", "ctr", "ECB"}

TextOfLen(n) == Tup([i \in 1..n |-> 32 + ((3 * i) % 90)])

AesTextLens == {0, 1, 13, 15, 16, 17, MaxMsgLen - 1, MaxMsgLen}
\* plaintexts: printable text of each length, 16 NULs, 16 times U+0010, and
\* text outside ASCII: accented and three-byte characters, a surrogate pair,
\* surrogates on their own, U+FEFF first, alone and inside
AesTexts ==
  {TextOfLen(n) : n \in AesTextLens} \cup
  { Fill(16, 0), Fill(16, 16), <<233, 8364, 65>>, <<55357, 56832>>, <<55296>>,
    <<56320, 65>>, <<ByteOrderMark>>, <<ByteOrderMark, 72, 105>>, <<72, ByteOrderMark, 105>> }

ZeroMask == Fill(16, 0)
\* what a tamperer XORs into the IV of the decrypting call: the last two
\* characters
TamperMasks == {Fill(14, 0) \o <<a, b>> : a, b \in {0, 1, 2, 3, 19}}

\* ciphertexts handed to aesDecrypt directly: 16 zero bytes, nothing, only
\* padding characters, three bytes, characters outside the alphabet
DirectCiphers ==
  { bytesToBase64(Fill(16, 0)), <<>>, <<PadChar, PadChar>>, bytesToBase64(<<1, 2, 3>>),
    <<33, 33, 33, 33>> }

\* Encrypt, then decrypt what came out (under an IV XORed with mask, and
\* keeping only the first keep characters of the ciphertext; -1 keeps all)
HonestRequests ==
  [op : {"roundtrip"}, key : AesKeys, iv : AesIVs, mode : AesModes, text : AesTexts,
   mask : {ZeroMask}, keep : {-1}]

TamperedRequests ==
  [op : {"roundtrip"}, key : {FipsKey, FipsKey256}, iv : {IvText}, mode : {"CBC"},
   text : {TextOfLen(13), TextOfLen(15)}, mask : TamperMasks, keep : {-1}]
  \cup
  [op : {"roundtrip"}, key : {FipsKey}, iv : {IvText}, mode : {"CBC", "CTR"},
   text : {TextOfLen(13), TextOfLen(17)}, mask : {ZeroMask}, keep : {0, 4, 23}]

DecryptRequests ==
  [op : {"decrypt"}, key : AesKeys, iv : {IvText, Pattern(15, 1, 47)},
   mode : {"CBC", "CTR", "OFB", "ECB"}, text : DirectCiphers, mask : {ZeroMask}, keep : {-1}]

\* the same plaintext under CTR, then under OFB
CompareRequests ==
  [op : {"compare"}, key : AesValidKeys, iv : AesValidIVs, mode : {"CTR"}, text : AesTexts,
   mask : {ZeroMask}, keep : {-1}]

\* one raw block through aesBlockEncrypt, then back through aesBlockDecrypt
BlockRequests ==
  [op : {"block"}, key : {FipsKey, FipsKey192, FipsKey256}, iv : {ZeroMask}, mode : {"raw"},
   text : {FipsBlock, Fill(16, 0), IvAllFF}, mask : {ZeroMask}, keep : {-1}]

\* byte buffers straight into modeCTREncrypt
CounterRequests ==
  [op : {"counter"}, key : {FipsKey, FipsKey256}, iv : CounterIVs, mode : {"CTR"},
   text : {Pattern(n, 5, 200) : n \in AesTextLens}, mask : {ZeroMask}, keep : {-1}]

AesRequests ==
  HonestRequests \cup TamperedRequests \cup DecryptRequests \cup CompareRequests
    \cup BlockRequests \cup CounterRequests

Kept(text, keep) == IF keep < 0 THEN text ELSE SubSeq(text, 1, Min(keep, Len(text)))

TamperedIV(iv, mask) == IF Len(iv) = 16 THEN xorBlocks(iv, mask) ELSE iv

Init ==
  /\ pc = "start"
  /\ req \in AesRequests
  /\ res = NoResult
  /\ res2 = NoResult

AesEncryptCall ==
  /\ pc = "start"
  /\ req.op \in {"roundtrip", "compare"}
  /\ res' = aesEncrypt(req.text, req.key, req.iv, req.mode)
  /\ pc' = "encrypted"
  /\ UNCHANGED <<req, res2>>

\* the caller goes on only with a ciphertext in hand
AesDecryptCall ==
  /\ pc = "encrypted"
  /\ req.op = "roundtrip"
  /\ res.err = ""
  /\ res2' = aesDecrypt(Kept(res.out, req.keep), req.key, TamperedIV(req.iv, req.mask), req.mode)
  /\ pc' = "decrypted"
  /\ UNCHANGED <<req, res>>

AesEncryptOFBCall ==
  /\ pc = "encrypted"
  /\ req.op = "compare"
  /\ res2' = aesEncrypt(req.text, req.key, req.iv, "OFB")
  /\ pc' = "compared"
  /\ UNCHANGED <<req, res>>

AesDecryptDirect ==
  /\ pc = "start"
  /\ req.op = "decrypt"
  /\ res' = aesDecrypt(req.text, req.key, req.iv, req.mode)
  /\ pc' = "decryptedDirect"
  /\ UNCHANGED <<req, res2>>

AesBlockEncryptCall ==
  /\ pc = "start"
  /\ req.op = "block"
  /\ LET w == keyExpansion(req.key)
     IN  res' = [err |-> "", out |-> aesBlockEncrypt(req.text, w), words |-> Len(w)]
  /\ pc' = "blockEncrypted"
  /\ UNCHANGED <<req, res2>>

AesBlockDecryptCall ==
  /\ pc = "blockEncrypted"
  /\ LET w == keyExpansion(req.key)
     IN  res2' = [err |-> "", out |-> aesBlockDecrypt(res.out, w), words |-> Len(w)]
  /\ pc' = "blockDecrypted"
  /\ UNCHANGED <<req, res>>

ModeCTREncryptCall ==
  /\ pc = "start"
  /\ req.op = "counter"
  /\ res' = modeCTREncrypt(req.text, req.key, req.iv)
  /\ pc' = "counted"
  /\ UNCHANGED <<req, res2>>

Next ==
  \/ AesEncryptCall
  \/ AesDecryptCall
  \/ AesEncryptOFBCall
  \/ AesDecryptDirect
  \/ AesBlockEncryptCall
  \/ AesBlockDecryptCall
  \/ ModeCTREncryptCall

Spec == Init /\ [][Next]_vars

\* ------------------------------------------------------------------------
\* Claims about AES

KeyLenOk(key) == Len(stringToUtf8Bytes(key)) \in {16, 24, 32}
IvLenOk(iv) == Len(stringToUtf8Bytes(iv)) = 16
ModeOk(mode) == ToUpperCase(mode) \in {"CBC", "CTR", "OFB"}
Untampered == req.mask = ZeroMask /\ req.keep = -1
BlockWork == {"keyExpansion", "aesBlockEncrypt", "aesBlockDecrypt"}

\* C1: for a key of 16, 24 or 32 bytes, an IV of 16 bytes and a mode among
\* CBC, CTR and OFB, encrypting a message succeeds and decrypting the result
\* under the same key, IV and mode returns exactly the message.
C1_RoundTrip ==
  (req.op = "roundtrip" /\ Untampered /\ KeyLenOk(req.key) /\ IvLenOk(req.iv)
     /\ ModeOk(req.mode))
  => /\ pc = "encrypted" => res.err = ""
     /\ pc = "decrypted" => res2.err = "" /\ res2.out = req.text

\* what the round trip does give back: the bytes that were encrypted, and
\* the message itself when it is well-formed UTF-16 not starting with U+FEFF
WellFormed(str) ==
  \A i \in 1..Len(str) :
    /\ IsHighSurrogate(str[i]) => i < Len(str) /\ IsLowSurrogate(str[i + 1])
    /\ IsLowSurrogate(str[i]) => i > 1 /\ IsHighSurrogate(str[i - 1])

RoundTripOfBytes ==
  (pc = "decrypted" /\ req.op = "roundtrip" /\ Untampered)
  => /\ res2.err = ""
     /\ res2.run.out = stringToUtf8Bytes(req.text)
     /\ (WellFormed(req.text) /\ (req.text = <<>> \/ req.text[1] # ByteOrderMark))
          => res2.out = req.text

\* PKCS#7: the stream ends with padLen bytes equal to padLen, 1 <= padLen <= 16
PaddingOk(stream) ==
  /\ Len(stream) > 0
  /\ LET padLen == stream[Len(stream)]
     IN  /\ padLen \in 1..16
         /\ padLen <= Len(stream)
         /\ \A i \in 0..(padLen - 1) : stream[Len(stream) - i] = padLen

StrictlyUnpadded(r) ==
  IF PaddingOk(r.run.stream)
    THEN /\ r.err = ""
         /\ r.run.out = SubSeq(r.run.stream, 1, Len(r.run.stream) - r.run.stream[Len(r.run.stream)])
         /\ r.out = utf8BytesToString(r.run.out)
    ELSE /\ r.err \in {"InvalidPadding", "InvalidPaddingBytes", "InvalidCiphertextLength"}
         /\ r.out = <<>>

\* C2: a CBC decryption returns a plaintext exactly when the decrypted stream
\* ends with a valid PKCS#7 padding, and the plaintext is the stream without
\* it; every other ciphertext, one that decodes to zero bytes included, fails
\* with an invalid-padding or invalid-length error and returns nothing.
C2_StrictPadding ==
  /\ (pc = "decrypted" /\ req.op = "roundtrip" /\ ToUpperCase(req.mode) = "CBC")
       => StrictlyUnpadded(res2)
  /\ (pc = "decryptedDirect" /\ ToUpperCase(req.mode) = "CBC"
        /\ KeyLenOk(req.key) /\ IvLenOk(req.iv))
       => StrictlyUnpadded(res)

\* what one call of aesEncrypt or aesDecrypt owes to its key and IV
LengthsChecked(r, key, iv) ==
  /\ ~KeyLenOk(key) => r.err = "InvalidKeyLength"
  /\ (KeyLenOk(key) /\ ~IvLenOk(iv)) => r.err = "InvalidIVLength"
  /\ r.err \in {"InvalidKeyLength", "InvalidIVLength"}
       => /\ r.out = <<>>
          /\ \A i \in 1..Len(r.trace) : r.trace[i] \notin BlockWork
  /\ r.err = "" => KeyLenOk(key) /\ IvLenOk(iv)
  /\ \A i \in 1..Len(r.trace) :
       r.trace[i] \in BlockWork => \E j \in 1..(i - 1) : r.trace[j] = "validateKeyAndIV"

\* C3: aesEncrypt and aesDecrypt give output only for a key of 16, 24 or 32
\* bytes and an IV of 16 bytes; otherwise they fail with the key-length error
\* (checked first) or the IV-length error, before the key is expanded or any
\* block is processed, in every mode.
C3_LengthsCheckedFirst ==
  /\ (pc \in {"encrypted", "decrypted", "compared", "decryptedDirect"})
       => LengthsChecked(res, req.key, req.iv)
  /\ pc = "decrypted" => LengthsChecked(res2, req.key, TamperedIV(req.iv, req.mask))
  /\ pc = "compared" => LengthsChecked(res2, req.key, req.iv)

C3_Witness ==
  /\ pc = "decryptedDirect" /\ Len(req.key) = 15 /\ Len(req.iv) = 15 /\ req.mode = "OFB"
  /\ res.err = "InvalidKeyLength" /\ res.trace = <<"base64ToBytes", "validateKeyAndIV">>

\* the 16 bytes of (the big-endian integer s) + n, modulo 2^128
RECURSIVE AddBigEndian(_, _)
AddBigEndian(s, n) ==
  IF Len(s) = 0 THEN <<>>
  ELSE LET v == s[Len(s)] + n
       IN  AddBigEndian(SubSeq(s, 1, Len(s) - 1), v \div 256) \o <<v % 256>>

CountersOk(r, iv, dataLen) ==
  /\ Len(r.counters) = (dataLen + 15) \div 16
  /\ \A i \in 1..Len(r.counters) : r.counters[i] = AddBigEndian(iv, i - 1)
  /\ r.iv = iv

\* C4: in CTR mode the counter of keystream block i is (IV + i) mod 2^128,
\* the 16 bytes read as one big-endian integer (all-0xFF wraps to zero), and
\* the caller's IV buffer is left as it was.
C4_CounterIsIvPlusI ==
  /\ pc = "counted" => CountersOk(res, req.iv, Len(req.text))
  /\ (pc \in {"encrypted", "decrypted", "compared"} /\ ToUpperCase(req.mode) = "CTR"
        /\ res.err = "")
       => CountersOk(res.run, stringToUtf8Bytes(req.iv), Len(stringToUtf8Bytes(req.text)))
  /\ (pc = "decrypted" /\ ToUpperCase(req.mode) = "CTR" /\ res2.err = "")
       => CountersOk(res2.run, stringToUtf8Bytes(TamperedIV(req.iv, req.mask)),
                     Len(base64ToBytes(Kept(res.out, req.keep))))
  /\ (pc = "decryptedDirect" /\ ToUpperCase(req.mode) = "CTR" /\ res.err = "")
       => CountersOk(res.run, stringToUtf8Bytes(req.iv), Len(base64ToBytes(req.text)))

C4_Witness ==
  /\ pc = "counted" /\ req.iv = IvAllFF
  /\ Len(res.counters) = 3
  /\ res.counters[2] = Fill(16, 0)
  /\ res.counters[3] = Fill(15, 0) \o <<1>>

\* C5: for the same key, IV and data, CTR and OFB agree on the first 16
\* output bytes, hence on the whole output when the data is at most 16 bytes:
\* both are the data XOR Encrypt(IV) there.
C5_CtrOfbFirstBlock ==
  pc = "compared" =>
    LET ctr == base64ToBytes(res.out)
        ofb == base64ToBytes(res2.out)
        data == stringToUtf8Bytes(req.text)
        n == Min(16, Len(data))
        ks == aesBlockEncrypt(stringToUtf8Bytes(req.iv), keyExpansion(stringToUtf8Bytes(req.key)))
    IN  /\ res.err = "" /\ res2.err = ""
        /\ Len(ctr) = Len(data) /\ Len(ofb) = Len(data)
        /\ SubSeq(ctr, 1, n) = SubSeq(ofb, 1, n)
        /\ \A j \in 1..n : ctr[j] = Xor(data[j], ks[j])
        /\ Len(data) <= 16 => res.out = res2.out

C5_Witness ==
  /\ pc = "compared" /\ Len(req.text) = 16 /\ Len(req.key) = 24
  /\ res.err = "" /\ res.out = res2.out /\ Len(base64ToBytes(res.out)) = 16

\* C6: aesBlockEncrypt of 00112233445566778899aabbccddeeff under the key
\* schedule of 000102030405060708090a0b0c0d0e0f, which has 4 * (10 + 1) words,
\* is 69c4e0d86a7b0430d8cdb78070b4c55a.
C6_Fips197Vector ==
  (req.op = "block" /\ req.key = FipsKey /\ req.text = FipsBlock /\ pc # "start")
    => res.out = FipsCipher /\ res.words = 4 * (10 + 1)

C6_Witness ==
  /\ pc = "blockEncrypted" /\ req.key = FipsKey /\ req.text = FipsBlock
  /\ res.out = FipsCipher

\* ------------------------------------------------------------------------
\* Strings of the classical ciphers: sequences of UTF-16 code units.  The
\* case mappings are those of String.prototype.toUpperCase / toLowerCase on
\* the characters the callers below use (TextChars); a character that maps
\* to itself is not listed.

SharpS == 223              \* U+00DF, upper case "SS"
DotlessI == 305            \* U+0131, upper case "I"
LongS == 383               \* U+017F, upper case "S"
LigatureST == 64262        \* U+FB06, upper case "ST"
KelvinSign == 8490         \* U+212A, lower case "k"

\* c.toUpperCase() for one code unit c
UpperOf(c) ==
  IF c >= 97 /\ c <= 122 THEN <<c - 32>>
  ELSE IF c = SharpS THEN <<83, 83>>
  ELSE IF c = DotlessI THEN <<73>>
  ELSE IF c = LongS THEN <<83>>
  ELSE IF c = LigatureST THEN <<83, 84>>
  ELSE IF c = 233 THEN <<201>>
  ELSE <<c>>

\* c.toLowerCase() for one code unit c
LowerOf(c) ==
  IF c >= 65 /\ c <= 90 THEN <<c + 32>>
  ELSE IF c = KelvinSign THEN <<107>>
  ELSE IF c = 201 THEN <<233>>
  ELSE <<c>>

RECURSIVE toUpperCase(_)
toUpperCase(str) ==
  IF Len(str) = 0 THEN <<>> ELSE UpperOf(str[1]) \o toUpperCase(SubSeq(str, 2, Len(str)))

IsCapital(c) == c >= 65 /\ c <= 90

\* str.toUpperCase().replace(/[^A-Z]/g, '')
UpperLetters(str) == SelectSeq(toUpperCase(str), IsCapital)

\* [...new Set(chars)]: the first occurrence of every character, in order
RECURSIVE uniqueChars(_)
uniqueChars(chars) ==
  IF Len(chars) = 0 THEN <<>>
  ELSE IF \E i \in 1..(Len(chars) - 1) : chars[i] = chars[Len(chars)]
    THEN uniqueChars(SubSeq(chars, 1, Len(chars) - 1))
  ELSE Append(uniqueChars(SubSeq(chars, 1, Len(chars) - 1)), chars[Len(chars)])

MatchesAt(str, sub, i) ==
  i + Len(sub) <= Len(str) /\ SubSeq(str, i + 1, i + Len(sub)) = sub

\* str.indexOf(sub) for a non-empty sub: 0-based, -1 when absent
indexOf(str, sub) ==
  IF \E i \in 0..(Len(str) - 1) : MatchesAt(str, sub, i)
    THEN CHOOSE i \in 0..(Len(str) - 1) :
           MatchesAt(str, sub, i) /\ \A j \in 0..(i - 1) : ~MatchesAt(str, sub, j)
    ELSE -1

\* ------------------------------------------------------------------------
\* monoalphabetic.ts

ALPHABET == [i \in 1..26 |-> 64 + i] \o <<>>

\* the remaining letters, kept whether or not the key has them
remainingCharsUnfiltered(unique) == ALPHABET

\* ALPHABET.split('').filter(char => !uniqueChars.includes(char))
remainingChars(unique) ==
  SelectSeq(ALPHABET, LAMBDA char : \A i \in 1..Len(unique) : unique[i] # char)

generateCipherAlphabet(key) ==
  LET Join(unique) == unique \o remainingChars(unique)
  IN  Join(uniqueChars(UpperLetters(key)))

\* one turn of the loop of monoalphabeticEncrypt (from = ALPHABET, to = the
\* cipher alphabet) and of monoalphabeticDecrypt (the other way round)
SubstituteChar(char, from, to) ==
  LET Mapped(index) ==
        IF index # -1
          THEN (IF <<char>> = LowerOf(char) THEN LowerOf(to[index + 1]) ELSE <<to[index + 1]>>)
          ELSE <<char>>
  IN  Mapped(indexOf(from, UpperOf(char)))

RECURSIVE Substitute(_, _, _)
Substitute(text, from, to) ==
  IF Len(text) = 0 THEN <<>>
  ELSE SubstituteChar(text[1], from, to) \o Substitute(SubSeq(text, 2, Len(text)), from, to)

monoalphabeticEncrypt(plaintext, key) == Substitute(plaintext, ALPHABET, generateCipherAlphabet(key))

monoalphabeticDecrypt(ciphertext, key) == Substitute(ciphertext, generateCipherAlphabet(key), ALPHABET)

\* ------------------------------------------------------------------------
\* hill.ts and the helpers it imports.  NaN is what charCodeAt gives past the
\* end of the text; the arithmetic that meets it gives NaN.

NaN == -1

\* ((a % m) + m) % m on integers
Mod(a, m) == a % m

cleanText(text) == UpperLetters(text)

determinant3x3(m) ==
  (m[1][1] * (m[2][2] * m[3][3] - m[2][3] * m[3][2])
     - m[1][2] * (m[2][1] * m[3][3] - m[2][3] * m[3][1]))
    + m[1][3] * (m[2][1] * m[3][2] - m[2][2] * m[3][1])

\* the loop of modInverse of the helpers: the least x in 1..m-1 with
\* a * x % m = 1, -1 when there is none
helpersModInverse(a, m) ==
  IF \E x \in 1..(m - 1) : (Mod(a, m) * x) % m = 1
    THEN CHOOSE x \in 1..(m - 1) :
           (Mod(a, m) * x) % m = 1 /\ \A y \in 1..(x - 1) : (Mod(a, m) * y) % m # 1
    ELSE -1

\* the transpose of the cofactors left as it is
adjugateUntransposed(m) ==
  << <<m[2][2] * m[3][3] - m[2][3] * m[3][2],
       m[2][3] * m[3][1] - m[2][1] * m[3][3],
       m[2][1] * m[3][2] - m[2][2] * m[3][1]>>,
     <<m[1][3] * m[3][2] - m[1][2] * m[3][3],
       m[1][1] * m[3][3] - m[1][3] * m[3][1],
       m[1][2] * m[3][1] - m[1][1] * m[3][2]>>,
     <<m[1][2] * m[2][3] - m[1][3] * m[2][2],
       m[1][3] * m[2][1] - m[1][1] * m[2][3],
       m[1][1] * m[2][2] - m[1][2] * m[2][1]>> >>

adjugate3x3(m) ==
  << <<m[2][2] * m[3][3] - m[2][3] * m[3][2],
       m[1][3] * m[3][2] - m[1][2] * m[3][3],
       m[1][2] * m[2][3] - m[1][3] * m[2][2]>>,
     <<m[2][3] * m[3][1] - m[2][1] * m[3][3],
       m[1][1] * m[3][3] - m[1][3] * m[3][1],
       m[1][3] * m[2][1] - m[1][1] * m[2][3]>>,
     <<m[2][1] * m[3][2] - m[2][2] * m[3][1],
       m[1][2] * m[3][1] - m[1][1] * m[3][2],
       m[1][1] * m[2][2] - m[1][2] * m[2][1]>> >>

\* text.charCodeAt(i) - 65, i 0-based
LetterAt(text, i) == IF i < Len(text) THEN text[i + 1] - 65 ELSE NaN

\* String.fromCharCode(n + 65) of every entry of the result vector; a NaN in
\* the block makes every entry NaN, and fromCharCode(NaN) is U+0000
processBlock(block, matrix) ==
  IF \E j \in 1..3 : block[j] = NaN THEN <<0, 0, 0>>
  ELSE [i \in 1..3 |->
          Mod(matrix[i][1] * block[1] + matrix[i][2] * block[2] + matrix[i][3] * block[3], 26)
            + 65] \o <<>>

RECURSIVE HillBlocks(_, _, _)
HillBlocks(text, i, matrix) ==
  IF i >= Len(text) THEN <<>>
  ELSE processBlock(<<LetterAt(text, i), LetterAt(text, i + 1), LetterAt(text, i + 2)>>, matrix)
         \o HillBlocks(text, i + 3, matrix)

\* while (text.length % 3 !== 0) text += 'X'
PadToBlocks(text) == text \o Fill((3 - (Len(text) % 3)) % 3, 88)

ERROR_NON_INVERTIBLE == "NonInvertibleKey"

\* a test that lets every key matrix through but the zero determinant
KeyInverseOfNonZero(keyMatrix) ==
  IF Mod(determinant3x3(keyMatrix), 26) = 0 THEN -1 ELSE 1

\* the test both functions make on the key matrix
KeyInverse(keyMatrix) == helpersModInverse(Mod(determinant3x3(keyMatrix), 26), 26)

hillEncrypt(plaintext, keyMatrix) ==
  IF KeyInverse(keyMatrix) = -1 THEN [err |-> ERROR_NON_INVERTIBLE, out |-> <<>>]
  ELSE [err |-> "", out |-> HillBlocks(PadToBlocks(cleanText(plaintext)), 0, keyMatrix)]

\* adj.map(row => row.map(cell => (((cell * detInv) % 26) + 26) % 26))
InverseMatrix(adj, detInv) ==
  [i \in 1..3 |-> [j \in 1..3 |-> Mod(adj[i][j] * detInv, 26)] \o <<>>] \o <<>>

hillDecrypt(ciphertext, keyMatrix) ==
  LET Decrypt(detInv) ==
        IF detInv = -1 THEN [err |-> ERROR_NON_INVERTIBLE, out |-> <<>>]
        ELSE [err |-> "",
              out |-> HillBlocks(cleanText(ciphertext), 0,
                                 InverseMatrix(adjugate3x3(keyMatrix), detInv))]
  IN  Decrypt(KeyInverse(keyMatrix))

\* keyToMatrix of the service: key.charCodeAt(i) - 65 of the upper-cased key,
\* row by row
keyToMatrix(key) ==
  [i \in 1..3 |-> [j \in 1..3 |-> key[3 * (i - 1) + j] - 65] \o <<>>] \o <<>>

\* ------------------------------------------------------------------------
\* columnar.ts

cleanKey(key) == uniqueChars(UpperLetters(key))

\* the column indices (0-based) in the order sort gives the characters of
\* cKey; they are distinct capitals, which localeCompare orders A to Z
sortedKey(cKey) ==
  [r \in 1..Len(cKey) |->
     (CHOOSE i \in 1..Len(cKey) :
        Cardinality({j \in 1..Len(cKey) : cKey[j] < cKey[i]}) = r - 1) - 1] \o <<>>

\* what a loop that never ends gives: the grid grows until the host gives up
NeverReturns == [err |-> "NeverReturns", out |-> <<>>]

\* the columns of the grid of paddedText, read in the order given
ReadColumns(paddedText, order, numRows, numCols) ==
  [k \in 1..(numRows * numCols) |->
     paddedText[((k - 1) % numRows) * numCols + order[((k - 1) \div numRows) + 1] + 1]] \o <<>>

\* numCols = 0 makes numRows NaN for the empty plaintext (no row, no
\* column) and Infinity for any other (the loop over the rows never ends)
columnarEncrypt(plaintext, key) ==
  LET Encrypt(cKey, numCols) ==
        IF numCols = 0
          THEN (IF Len(plaintext) = 0 THEN [err |-> "", out |-> <<>>] ELSE NeverReturns)
        ELSE LET numRows == (Len(plaintext) + numCols - 1) \div numCols
                 paddedText == plaintext \o Fill(numRows * numCols - Len(plaintext), 120)
             IN  [err |-> "", out |-> ReadColumns(paddedText, sortedKey(cKey), numRows, numCols)]
      Clean(cKey) == Encrypt(cKey, Len(cKey))
  IN  Clean(cleanKey(key))

\* ciphertext[i] past the end
Undefined == -1

Defined(c) == c # Undefined

\* where row-major cell k of the grid comes from in the ciphertext
CipherIndex(k, order, numRows, numCols) ==
  (CHOOSE r \in 1..numCols : order[r] = (k - 1) % numCols) * numRows
    - numRows + ((k - 1) \div numCols) + 1

GridCell(ciphertext, i) == IF i <= Len(ciphertext) THEN ciphertext[i] ELSE Undefined

\* grid.map(row => row.join('')).join(''): join leaves an undefined cell out
WriteColumns(ciphertext, order, numRows, numCols) ==
  SelectSeq([k \in 1..(numRows * numCols) |->
               GridCell(ciphertext, CipherIndex(k, order, numRows, numCols))] \o <<>>,
            Defined)

InvalidLength == [err |-> "InvalidLength", out |-> <<>>]

\* a test of the length that only asks for a full first row
LengthMismatchBelowOneRow(len, numCols) == numCols = 0 \/ len < numCols

\* ciphertext.length !== numCols * numRows; numCols = 0 makes the product
\* NaN, which no length equals
LengthMismatch(len, numCols) ==
  numCols = 0 \/ len # numCols * ((len + numCols - 1) \div numCols)

columnarDecrypt(ciphertext, key) ==
  LET Decrypt(cKey, numCols) ==
        IF LengthMismatch(Len(ciphertext), numCols) THEN InvalidLength
        ELSE [err |-> "",
              out |-> WriteColumns(ciphertext, sortedKey(cKey),
                                   (Len(ciphertext) + numCols - 1) \div numCols, numCols)]
      Clean(cKey) == Decrypt(cKey, Len(cKey))
  IN  Clean(cleanKey(key))

\* ------------------------------------------------------------------------
\* rc4.ts.  stringToUtf8Bytes, utf8BytesToString and base64ToBytes have the
\* statements of the AES file's.

\* [s[i], s[j]] = [s[j], s[i]], i and j 0-based
Swap(s, i, j) == [s EXCEPT ![i + 1] = s[j + 1], ![j + 1] = s[i + 1]]

\* one turn of the key-scheduling loop on <<s, j>>
KsaTurn(st, i, j) == <<Swap(st[1], i, j), j>>

KsaStep(st, i, key) == KsaTurn(st, i, (st[2] + st[1][i + 1] + key[(i % Len(key)) + 1]) % 256)

\* turns lo .. hi of the loop, as two halves; the state the first half
\* leaves is looked at (it is a pair) before the second half starts from it
RECURSIVE KsaLoop(_, _, _, _)
KsaSecondHalf(st, lo, hi, key) == IF Len(st) = 2 THEN KsaLoop(st, lo, hi, key) ELSE st

KsaLoop(st, lo, hi, key) ==
  IF lo > hi THEN st
  ELSE IF lo = hi THEN KsaStep(st, lo, key)
  ELSE KsaSecondHalf(KsaLoop(st, lo, (lo + hi) \div 2, key), ((lo + hi) \div 2) + 1, hi, key)

\* the S-box after the key scheduling; without key bytes every j is NaN and
\* every swap stores undefined, which a Uint8Array keeps as 0
KeySchedule(key) ==
  IF Len(key) = 0 THEN Fill(256, 0)
  ELSE KsaLoop(<<[i \in 1..256 |-> i - 1] \o <<>>, 0>>, 0, 255, key)[1]

\* one turn of the generation loop on <<s, i, j, output>>
PrgaOutput(s, i, j, output, byte) ==
  <<s, i, j, Append(output, Xor(byte, s[((s[i + 1] + s[j + 1]) % 256) + 1]))>>

PrgaTurn(st, i, j, byte) == PrgaOutput(Swap(st[1], i, j), i, j, st[4], byte)

PrgaNext(st, i, byte) == PrgaTurn(st, i, (st[3] + st[1][i + 1]) % 256, byte)

PrgaStep(st, k, input) == PrgaNext(st, (st[2] + 1) % 256, input[k + 1])

RECURSIVE PrgaLoop(_, _, _, _)
PrgaSecondHalf(st, lo, hi, input) == IF Len(st) = 4 THEN PrgaLoop(st, lo, hi, input) ELSE st

PrgaLoop(st, lo, hi, input) ==
  IF lo > hi THEN st
  ELSE IF lo = hi THEN PrgaStep(st, lo, input)
  ELSE PrgaSecondHalf(PrgaLoop(st, lo, (lo + hi) \div 2, input), ((lo + hi) \div 2) + 1, hi, input)

rc4(key, input) == PrgaLoop(<<KeySchedule(key), 0, 0, <<>> >>, 0, Len(input) - 1, input)[4]

\* bytesToBase64 of rc4.ts: one group of three bytes from i (0-based)
Rc4Group(buffer, i) ==
  LET len == Len(buffer)
      b1 == buffer[i + 1]
      b2 == IF i + 1 < len THEN buffer[i + 2] ELSE 0
      b3 == IF i + 2 < len THEN buffer[i + 3] ELSE 0
  IN  <<Base64Chars[(b1 \div 4) + 1],
        Base64Chars[((b1 % 4) * 16 + (b2 \div 16)) + 1],
        IF i + 1 < len THEN Base64Chars[((b2 % 16) * 4 + (b3 \div 64)) + 1] ELSE PadChar,
        IF i + 2 < len THEN Base64Chars[(b3 % 64) + 1] ELSE PadChar>>

rc4BytesToBase64(buffer) ==
  [k \in 1..(4 * ((Len(buffer) + 2) \div 3)) |->
     Rc4Group(buffer, 3 * ((k - 1) \div 4))[((k - 1) % 4) + 1]] \o <<>>

Rc4Failed == [err |-> "Rc4OperationFailed", out |-> <<>>, bytes |-> <<>>]

\* the decrypt branch after rc4: bytes is what base64ToBytes gave
Rc4Decoded(plainBytes, decryptedText, bytes) ==
  IF Len(decryptedText) = 0 /\ Len(plainBytes) > 0 THEN Rc4Failed
  ELSE [err |-> "", out |-> decryptedText, bytes |-> bytes]

Rc4Decrypted(plainBytes, bytes) == Rc4Decoded(plainBytes, utf8BytesToString(plainBytes), bytes)

Rc4Decrypt(keyBytes, dataBytes) == Rc4Decrypted(rc4(keyBytes, dataBytes), dataBytes)

Rc4Encrypted(cipherBytes) == [err |-> "", out |-> rc4BytesToBase64(cipherBytes), bytes |-> cipherBytes]

\* rc4Crypt: out is the text returned, bytes the cipher bytes made or read
rc4Crypt(text, key, mode) ==
  IF mode = "encrypt" THEN Rc4Encrypted(rc4(stringToUtf8Bytes(key), stringToUtf8Bytes(text)))
  ELSE Rc4Decrypt(stringToUtf8Bytes(key), base64ToBytes(text))

\* ------------------------------------------------------------------------
\* Callers of the classical ciphers and of RC4: one request each, the
\* encryption first and the decryption of what it returned second, or a
\* decryption alone of a text the caller brings.

\* keys of the monoalphabetic cipher:
\* 'ZEBRA', '', 'zebra!', 'AAB', 'Stra\xdfe', 'thequickbrownfoxjumpsoverthelazydog', '123'
MonoKeys ==
  { <<90, 69, 66, 82, 65>>,
    <<>>,
    <<122, 101, 98, 114, 97, 33>>,
    <<65, 65, 66>>,
    <<83, 116, 114, 97, 223, 101>>,
    <<116, 104, 101, 113, 117, 105, 99, 107, 98, 114, 111, 119, 110, 102, 111, 120, 106, 117, 109, 112, 115, 111, 118, 101, 114, 116, 104, 101, 108, 97, 122, 121, 100, 111, 103>>,
    <<49, 50, 51>> }

\* texts of the monoalphabetic cipher:
\* 'HELLO', 'Hello, World!', '', '\u017f', '\u0131', '\ufb06x', 'a\xe9', '\U0001f600z', '\xdf', '\u212a'
MonoTexts ==
  { <<72, 69, 76, 76, 79>>,
    <<72, 101, 108, 108, 111, 44, 32, 87, 111, 114, 108, 100, 33>>,
    <<>>,
    <<383>>,
    <<305>>,
    <<64262, 120>>,
    <<97, 233>>,
    <<55357, 56832, 122>>,
    <<223>>,
    <<8490>> }

ZebraKey == <<90, 69, 66, 82, 65>>
ZebraAlphabet == <<90, 69, 66, 82, 65, 67, 68, 70, 71, 72, 73, 74, 75, 76, 77, 78, 79, 80, 81, 83, 84, 85, 86, 87, 88, 89>>
HelloText == <<72, 69, 76, 76, 79>>

\* nine-letter keys of the Hill cipher:
\* 'GYBNQKURP', 'CAAACAAAC', 'BAAABAAAB', 'AAAAAAAAA', 'ABCDEFGHI', 'NAAABAAAB', 'HILLCIPHR', 'ZZZZZZZZY', 'DDCFBKJIE'
HillKeyTexts ==
  { <<71, 89, 66, 78, 81, 75, 85, 82, 80>>,
    <<67, 65, 65, 65, 67, 65, 65, 65, 67>>,
    <<66, 65, 65, 65, 66, 65, 65, 65, 66>>,
    <<65, 65, 65, 65, 65, 65, 65, 65, 65>>,
    <<65, 66, 67, 68, 69, 70, 71, 72, 73>>,
    <<78, 65, 65, 65, 66, 65, 65, 65, 66>>,
    <<72, 73, 76, 76, 67, 73, 80, 72, 82>>,
    <<90, 90, 90, 90, 90, 90, 90, 90, 89>>,
    <<68, 68, 67, 70, 66, 75, 74, 73, 69>> }

HillKeyGybnqkurp == keyToMatrix(<<71, 89, 66, 78, 81, 75, 85, 82, 80>>)
HillKeyDiagonalTwo == << <<2, 0, 0>>, <<0, 2, 0>>, <<0, 0, 2>> >>

\* entries of the key matrices built entry by entry
HillEntries == {0, 1, 2, 13, 25}

HillGridKeys ==
  { << <<a, b, 0>>, <<c, d, 0>>, <<0, 0, 1>> >> : a \in HillEntries, b \in HillEntries,
                                                   c \in HillEntries, d \in HillEntries }

HillNamedKeys == { keyToMatrix(k) : k \in HillKeyTexts }

\* plaintexts of the Hill cipher:
\* 'ACT', 'Hello, World!', '', 'a', 'stra\xdfe', 'ABCDEFGHIJ'
HillTexts ==
  { <<65, 67, 84>>,
    <<72, 101, 108, 108, 111, 44, 32, 87, 111, 114, 108, 100, 33>>,
    <<>>,
    <<97>>,
    <<115, 116, 114, 97, 223, 101>>,
    <<65, 66, 67, 68, 69, 70, 71, 72, 73, 74>> }

\* ciphertexts brought to hillDecrypt:
\* 'POH', 'AB', 'poh!XYZ'
HillCipherTexts ==
  { <<80, 79, 72>>,
    <<65, 66>>,
    <<112, 111, 104, 33, 88, 89, 90>> }

ActText == <<65, 67, 84>>

\* keys of the columnar transposition:
\* 'ZEBRA', 'KEY', 'aab', 'B', '', '123', 'Hello'
ColumnarKeys ==
  { <<90, 69, 66, 82, 65>>,
    <<75, 69, 89>>,
    <<97, 97, 98>>,
    <<66>>,
    <<>>,
    <<49, 50, 51>>,
    <<72, 101, 108, 108, 111>> }

\* plaintexts of the columnar transposition:
\* '', 'A', 'HELLO WORLD', 'WEAREDISCOVERED', 'xx', '\U0001f600ab'
ColumnarTexts ==
  { <<>>,
    <<65>>,
    <<72, 69, 76, 76, 79, 32, 87, 79, 82, 76, 68>>,
    <<87, 69, 65, 82, 69, 68, 73, 83, 67, 79, 86, 69, 82, 69, 68>>,
    <<120, 120>>,
    <<55357, 56832, 97, 98>> }

KeyWithoutLetters == <<49, 50, 51>>

\* keys of RC4:
\* '', 'Key', 'k', 'Secret', '\xe9'
Rc4Keys ==
  { <<>>,
    <<75, 101, 121>>,
    <<107>>,
    <<83, 101, 99, 114, 101, 116>>,
    <<233>> }

\* messages of RC4:
\* '', 'A', 'AB', 'ABC', 'ABCD', 'Plaintext', '\ufeff', '\ufeffA', '\ud800', '\xe9'
Rc4Texts ==
  { <<>>,
    <<65>>,
    <<65, 66>>,
    <<65, 66, 67>>,
    <<65, 66, 67, 68>>,
    <<80, 108, 97, 105, 110, 116, 101, 120, 116>>,
    <<65279>>,
    <<65279, 65>>,
    <<55296>>,
    <<233>> }

\* texts brought to the decrypt direction of RC4:
\* '!!!!', 'A', 'QUJD*', '====', 'QQ==', 'QUI=', 'QUJD', 'Q=Q=', '\xe9', 'QUJDR'
Rc4CipherTexts ==
  { <<33, 33, 33, 33>>,
    <<65>>,
    <<81, 85, 74, 68, 42>>,
    <<61, 61, 61, 61>>,
    <<81, 81, 61, 61>>,
    <<81, 85, 73, 61>>,
    <<81, 85, 74, 68>>,
    <<81, 61, 81, 61>>,
    <<233>>,
    <<81, 85, 74, 68, 82>> }

NotBase64 == <<33, 33, 33, 33>>

\* a nine-letter key built from the matrix entries
HillKeyOf(m) == [k \in 1..9 |-> m[((k - 1) \div 3) + 1][((k - 1) % 3) + 1] + 65] \o <<>>

HillKeys == HillKeyTexts \cup { HillKeyOf(m) : m \in HillGridKeys }

\* lengths of the ciphertexts brought to columnarDecrypt
MaxCipherLen == 7

CipherOfLen(n) == [i \in 1..n |-> 64 + i] \o <<>>

MonoRequests == [op : {"mono"}, key : MonoKeys, text : MonoTexts]

HillRequests ==
  [op : {"hill"}, key : HillKeys, text : HillTexts]
    \cup [op : {"hillDecrypt"}, key : HillKeys, text : HillCipherTexts]

ColumnarRequests ==
  [op : {"columnar"}, key : ColumnarKeys, text : ColumnarTexts]
    \cup [op : {"columnarDecrypt"}, key : ColumnarKeys,
          text : {CipherOfLen(n) : n \in 0..MaxCipherLen}]

Rc4Requests ==
  [op : {"rc4"}, key : Rc4Keys, text : Rc4Texts]
    \cup [op : {"rc4Decrypt"}, key : Rc4Keys, text : Rc4CipherTexts]

CipherRequests == MonoRequests \cup HillRequests \cup ColumnarRequests \cup Rc4Requests

InitCiphers ==
  /\ pc = "start"
  /\ req \in CipherRequests
  /\ res = NoResult
  /\ res2 = NoResult

MonoalphabeticEncryptCall ==
  /\ pc = "start"
  /\ req.op = "mono"
  /\ res' = [err |-> "", out |-> monoalphabeticEncrypt(req.text, req.key),
             alphabet |-> generateCipherAlphabet(req.key)]
  /\ pc' = "encrypted"
  /\ UNCHANGED <<req, res2>>

MonoalphabeticDecryptCall ==
  /\ pc = "encrypted"
  /\ req.op = "mono"
  /\ res2' = [err |-> "", out |-> monoalphabeticDecrypt(res.out, req.key),
              alphabet |-> generateCipherAlphabet(req.key)]
  /\ pc' = "decrypted"
  /\ UNCHANGED <<req, res>>

HillEncryptCall ==
  /\ pc = "start"
  /\ req.op = "hill"
  /\ res' = hillEncrypt(req.text, keyToMatrix(toUpperCase(req.key)))
  /\ pc' = "encrypted"
  /\ UNCHANGED <<req, res2>>

\* the caller goes on only with a ciphertext in hand
HillDecryptCall ==
  /\ pc = "encrypted"
  /\ req.op = "hill"
  /\ res.err = ""
  /\ res2' = hillDecrypt(res.out, keyToMatrix(toUpperCase(req.key)))
  /\ pc' = "decrypted"
  /\ UNCHANGED <<req, res>>

HillDecryptDirect ==
  /\ pc = "start"
  /\ req.op = "hillDecrypt"
  /\ res' = hillDecrypt(req.text, keyToMatrix(toUpperCase(req.key)))
  /\ pc' = "decryptedDirect"
  /\ UNCHANGED <<req, res2>>

ColumnarEncryptCall ==
  /\ pc = "start"
  /\ req.op = "columnar"
  /\ res' = columnarEncrypt(req.text, req.key)
  /\ pc' = "encrypted"
  /\ UNCHANGED <<req, res2>>

ColumnarDecryptCall ==
  /\ pc = "encrypted"
  /\ req.op = "columnar"
  /\ res.err = ""
  /\ res2' = columnarDecrypt(res.out, req.key)
  /\ pc' = "decrypted"
  /\ UNCHANGED <<req, res>>

ColumnarDecryptDirect ==
  /\ pc = "start"
  /\ req.op = "columnarDecrypt"
  /\ res' = columnarDecrypt(req.text, req.key)
  /\ pc' = "decryptedDirect"
  /\ UNCHANGED <<req, res2>>

Rc4EncryptCall ==
  /\ pc = "start"
  /\ req.op = "rc4"
  /\ res' = rc4Crypt(req.text, req.key, "encrypt")
  /\ pc' = "encrypted"
  /\ UNCHANGED <<req, res2>>

Rc4DecryptCall ==
  /\ pc = "encrypted"
  /\ req.op = "rc4"
  /\ res2' = rc4Crypt(res.out, req.key, "decrypt")
  /\ pc' = "decrypted"
  /\ UNCHANGED <<req, res>>

Rc4DecryptDirect ==
  /\ pc = "start"
  /\ req.op = "rc4Decrypt"
  /\ res' = rc4Crypt(req.text, req.key, "decrypt")
  /\ pc' = "decryptedDirect"
  /\ UNCHANGED <<req, res2>>

NextCiphers ==
  \/ MonoalphabeticEncryptCall
  \/ MonoalphabeticDecryptCall
  \/ HillEncryptCall
  \/ HillDecryptCall
  \/ HillDecryptDirect
  \/ ColumnarEncryptCall
  \/ ColumnarDecryptCall
  \/ ColumnarDecryptDirect
  \/ Rc4EncryptCall
  \/ Rc4DecryptCall
  \/ Rc4DecryptDirect

SpecCiphers == InitCiphers /\ [][NextCiphers]_vars

\* ------------------------------------------------------------------------
\* Claims about the monoalphabetic cipher

IsPermutationOfAlphabet(alphabet) ==
  /\ Len(alphabet) = 26
  /\ \A c \in 65..90 : Cardinality({i \in 1..Len(alphabet) : alphabet[i] = c}) = 1

\* the letters of the key in first-seen order, then the letters left, A to Z
KeyedAlphabet(key) ==
  LET letters == UpperLetters(key)
      firsts == {i \in 1..Len(letters) : \A j \in 1..(i - 1) : letters[j] # letters[i]}
      keyed == SelectSeq([i \in 1..Len(letters) |->
                            IF i \in firsts THEN letters[i] ELSE 0] \o <<>>, IsCapital)
      rest == SelectSeq(ALPHABET, LAMBDA c : \A i \in 1..Len(letters) : letters[i] # c)
  IN  keyed \o rest

\* C12: for every key string the substitution alphabet is a permutation of
\* the 26 letters A-Z, each exactly once: the key's letters uppercased and
\* deduplicated in first-seen order, then the remaining letters in
\* alphabetical order; for the key "ZEBRA" it is ZEBRACDFGHIJKLMNOPQSTUVWXY.
C12_AlphabetIsPermutation ==
  (req.op = "mono" /\ pc \in {"encrypted", "decrypted"})
  => /\ IsPermutationOfAlphabet(res.alphabet)
     /\ res.alphabet = KeyedAlphabet(req.key)
     /\ req.key = ZebraKey => res.alphabet = ZebraAlphabet

C12_Witness ==
  /\ req.op = "mono" /\ pc = "encrypted"
  /\ req.key = ZebraKey
  /\ res.alphabet = ZebraAlphabet

IsLetter(c) == (c >= 65 /\ c <= 90) \/ (c >= 97 /\ c <= 122)

SameCase(c, d) == (c >= 97) = (d >= 97)

\* C13: for every key and every text, decrypting the encryption under the
\* same key gives the text back; the encryption has the length of the text,
\* has a letter of the same case wherever the text has a letter, and has the
\* text's own character wherever the text has a character that is no letter.
C13_MonoRoundTrip ==
  req.op = "mono"
  => /\ pc \in {"encrypted", "decrypted"}
          => /\ Len(res.out) = Len(req.text)
             /\ \A i \in 1..Len(req.text) :
                  IF IsLetter(req.text[i])
                    THEN IsLetter(res.out[i]) /\ SameCase(res.out[i], req.text[i])
                    ELSE res.out[i] = req.text[i]
     /\ pc = "decrypted" => res2.out = req.text

\* what does hold: the claim for the texts on which toUpperCase maps no
\* character that is not a letter to a letter
MapsOntoLetter(c) == ~IsLetter(c) /\ indexOf(ALPHABET, UpperOf(c)) # -1

C13_RoundTripOfPlainLetters ==
  (req.op = "mono" /\ \A i \in 1..Len(req.text) : ~MapsOntoLetter(req.text[i]))
  => C13_MonoRoundTrip

\* ------------------------------------------------------------------------
\* Claims about the Hill cipher

RECURSIVE Gcd(_, _)
Gcd(a, b) == IF b = 0 THEN a ELSE Gcd(b, a % b)

RequestMatrix == keyToMatrix(toUpperCase(req.key))

EntriesInRange(m) == \A i \in 1..3 : \A j \in 1..3 : m[i][j] >= 0 /\ m[i][j] < 26

Invertible(m) == Gcd(determinant3x3(m) % 26, 26) = 1

\* C14: hillEncrypt and hillDecrypt accept a 3x3 key matrix with entries in
\* [0, 26) exactly when gcd(det mod 26, 26) = 1, and otherwise fail with the
\* non-invertible-key error and no output; the key "GYBNQKURP" is accepted
\* and the matrix with 2 on the diagonal and 0 elsewhere is rejected.
C14_HillKeyAccepted ==
  (req.op \in {"hill", "hillDecrypt"} /\ pc \in {"encrypted", "decryptedDirect"}
     /\ EntriesInRange(RequestMatrix))
  => /\ Invertible(RequestMatrix) => res.err = ""
     /\ ~Invertible(RequestMatrix) => res.err = ERROR_NON_INVERTIBLE /\ res.out = <<>>
     /\ RequestMatrix = HillKeyGybnqkurp => res.err = ""
     /\ RequestMatrix = HillKeyDiagonalTwo => res.err = ERROR_NON_INVERTIBLE

C14_Witness ==
  /\ req.op = "hillDecrypt" /\ pc = "decryptedDirect"
  /\ RequestMatrix = HillKeyDiagonalTwo
  /\ res.err = ERROR_NON_INVERTIBLE

\* the product of two 3x3 matrices, mod 26
MatMul26(a, b) ==
  [i \in 1..3 |->
     [j \in 1..3 |-> (a[i][1] * b[1][j] + a[i][2] * b[2][j] + a[i][3] * b[3][j]) % 26] \o <<>>]
    \o <<>>

Identity3 == << <<1, 0, 0>>, <<0, 1, 0>>, <<0, 0, 1>> >>

\* the letters of the text in upper case, then 'X' up to a multiple of 3
HillExpected(text) ==
  LET letters == SelectSeq(toUpperCase(text), IsCapital)
  IN  letters \o [i \in 1..((3 - (Len(letters) % 3)) % 3) |-> 88]

\* C15: for every invertible key matrix K and every plaintext P, decrypting
\* the encryption of P under K gives P in upper case, without its
\* non-letters, padded with 'X' to a multiple of 3; the adjugate of K times
\* the inverse of its determinant, reduced mod 26, is the inverse of K mod 26.
C15_HillRoundTrip ==
  (req.op = "hill" /\ pc = "decrypted")
  => /\ res2.err = ""
     /\ res2.out = HillExpected(req.text)
     /\ Len(res.out) = Len(res2.out)
     /\ MatMul26(InverseMatrix(adjugate3x3(RequestMatrix), KeyInverse(RequestMatrix)),
                 RequestMatrix) = Identity3
     /\ MatMul26(RequestMatrix,
                 InverseMatrix(adjugate3x3(RequestMatrix), KeyInverse(RequestMatrix))) = Identity3

HelloWorldText == <<72, 101, 108, 108, 111, 44, 32, 87, 111, 114, 108, 100, 33>>
HelloWorldPadded == <<72, 69, 76, 76, 79, 87, 79, 82, 76, 68, 88, 88>>

C15_Witness ==
  /\ req.op = "hill" /\ pc = "decrypted"
  /\ RequestMatrix = HillKeyGybnqkurp
  /\ req.text = HelloWorldText
  /\ res.out # HelloWorldPadded
  /\ res2.out = HelloWorldPadded

\* ------------------------------------------------------------------------
\* Claims about the columnar transposition

\* the number of distinct letters of the key, in upper case
ColumnCount(key) == Cardinality({c \in 65..90 : \E i \in 1..Len(toUpperCase(key)) : toUpperCase(key)[i] = c})

\* the text right-padded with 'x' to the next multiple of c
PaddedWithX(text, c) ==
  IF c = 0 THEN text ELSE text \o [i \in 1..((c - (Len(text) % c)) % c) |-> 120]

\* column j (1-based) of the grid of c columns, top to bottom
ColumnOf(padded, j, c) == [r \in 1..(Len(padded) \div c) |-> padded[(r - 1) * c + j]] \o <<>>

\* the columns whose key letter is letter or later in the alphabet, in the
\* order of the alphabet
RECURSIVE ColumnsFrom(_, _, _)
ColumnsFrom(padded, cKey, letter) ==
  IF letter > 90 THEN <<>>
  ELSE (IF \E j \in 1..Len(cKey) : cKey[j] = letter
          THEN ColumnOf(padded, CHOOSE j \in 1..Len(cKey) : cKey[j] = letter, Len(cKey))
          ELSE <<>>)
         \o ColumnsFrom(padded, cKey, letter + 1)

CharBag(text) == [c \in {text[i] : i \in 1..Len(text)} |->
                    Cardinality({i \in 1..Len(text) : text[i] = c})]

ColumnarClaim(c) ==
  /\ pc \in {"encrypted", "decrypted"}
       => /\ res.err = ""
          /\ Len(res.out) = Len(PaddedWithX(req.text, c))
          /\ CharBag(res.out) = CharBag(PaddedWithX(req.text, c))
          /\ c > 0 => res.out = ColumnsFrom(PaddedWithX(req.text, c), cleanKey(req.key), 65)
  /\ pc = "decrypted" => res2.err = "" /\ res2.out = PaddedWithX(req.text, c)

\* C16: for any key and any plaintext P, columnarEncrypt returns the columns
\* of the grid of P, right-padded with 'x' to the next multiple of the column
\* count c (the number of distinct key characters), read in the sorted order
\* of the deduplicated key characters: a rearrangement of the padded
\* plaintext, of length ceil(len(P)/c)*c; columnarDecrypt of it under the
\* same key returns the padded plaintext.
C16_ColumnarRoundTrip == req.op = "columnar" => ColumnarClaim(ColumnCount(req.key))

\* what does hold: the claim for the keys that have a letter
C16_RoundTripWithLetters ==
  (req.op = "columnar" /\ ColumnCount(req.key) > 0) => ColumnarClaim(ColumnCount(req.key))

IsMultipleOf(len, c) == \E k \in 0..len : len = k * c

DecryptedDirect == req.op = "columnarDecrypt" /\ pc = "decryptedDirect"

C18_Rc4RoundTrip ==
  (req.op = "rc4" /\ Len(req.key) > 0)
  => /\ pc \in {"encrypted", "decrypted"} => res.err = ""
     /\ pc = "decrypted"
          => /\ res2.bytes = res.bytes
             /\ rc4(stringToUtf8Bytes(req.key), res.bytes) = stringToUtf8Bytes(req.text)
             /\ res2.err = ""
             /\ res2.out = req.text

\* what does hold: the bytes come back, and so does every well-formed
\* message that does not start with U+FEFF
C18_RoundTripOfBytes ==
  (req.op = "rc4" /\ Len(req.key) > 0)
  => /\ pc \in {"encrypted", "decrypted"} => res.err = ""
     /\ pc = "decrypted"
          => /\ base64ToBytes(res.out) = res.bytes
             /\ rc4(stringToUtf8Bytes(req.key), res.bytes) = stringToUtf8Bytes(req.text)
             /\ (WellFormed(req.text) /\ (req.text = <<>> \/ req.text[1] # ByteOrderMark))
                  => res2.err = "" /\ res2.out = req.text /\ res2.bytes = res.bytes

InBase64Alphabet(c) == \E k \in 1..Len(Base64Chars) : Base64Chars[k] = c

\* the text some byte string encodes to: groups of four characters of the
\* alphabet, the last group ending with at most two '='
ValidBase64(text) ==
  /\ Len(text) % 4 = 0
  /\ \E pad \in 0..2 :
       /\ pad <= Len(text)
       /\ \A i \in 1..Len(text) :
            IF i > Len(text) - pad THEN text[i] = PadChar ELSE InBase64Alphabet(text[i])

\* C19: for every input text that is not valid Base64 (a character outside
\* the 64-character alphabet and the '=' padding, or a length that no byte
\* string encodes to) rc4Crypt in the decrypt direction fails with an error
\* and returns no text.
C19_RejectsInvalidBase64 ==
  (req.op = "rc4Decrypt" /\ pc = "decryptedDirect" /\ ~ValidBase64(req.text))
  => res.err # "" /\ res.out = <<>>

\* ------------------------------------------------------------------------
\* BigInt values: the magnitude as limbs of 12 bits, least significant
\* first, no zero limb on top (0n is the empty tuple). The operators below
\* are the arithmetic the language gives on bigint operands.

BigBase == 4096
LimbBits == 12

\* the number of limbs of a[1..n] without the zero limbs on top
RECURSIVE BigTrimLen(_, _)
BigTrimLen(a, n) == IF n > 0 /\ a[n] = 0 THEN BigTrimLen(a, n - 1) ELSE n

BigTrim(a) == IF Len(a) = 0 \/ a[Len(a)] # 0 THEN a ELSE SubSeq(a, 1, BigTrimLen(a, Len(a)))

Limb(a, i) == IF i >= 1 /\ i <= Len(a) THEN a[i] ELSE 0

BigFromInt(v) == BigTrim(<<v % BigBase, (v \div BigBase) % BigBase, v \div (BigBase * BigBase)>>)

\* the value of a bigint of at most two limbs
BigToInt(a) == Limb(a, 1) + BigBase * Limb(a, 2)

\* column values (possibly negative or above the base) to limbs, on
\* <<limbs, carry>>; the columns lo .. hi are taken as two halves, and the
\* pair the first half leaves is looked at before the second starts from it
BigCarryStep(s, v) == <<Append(s[1], (v + s[2]) % BigBase), (v + s[2]) \div BigBase>>

RECURSIVE BigCarryLoop(_, _, _, _)
BigCarrySecondHalf(s, cols, lo, hi) == IF Len(s) = 2 THEN BigCarryLoop(s, cols, lo, hi) ELSE s

BigCarryLoop(s, cols, lo, hi) ==
  IF lo > hi THEN s
  ELSE IF lo = hi THEN BigCarryStep(s, cols[lo])
  ELSE BigCarrySecondHalf(BigCarryLoop(s, cols, lo, (lo + hi) \div 2), cols,
                          ((lo + hi) \div 2) + 1, hi)

BigCarryEnd(s) == BigTrim(s[1] \o <<s[2] % BigBase, (s[2] \div BigBase) % BigBase>>)

BigCarry(cols) == BigCarryEnd(BigCarryLoop(<<<<>>, 0>>, cols, 1, Len(cols)))

\* columns lo .. hi (column k collects a[j] * b[k - j + 1]) of the product
BigColumns(a, b, lo, hi) ==
  LET la == Len(a)
      lb == Len(b)
  IN  [c \in 1..(hi - lo + 1) |->
         BagCardinality([j \in (IF c + lo - 1 > lb THEN c + lo - lb ELSE 1)
                                 ..(IF c + lo - 1 < la THEN c + lo - 1 ELSE la)
                           |-> a[j] * b[c + lo - j] + 1])
           - ((IF c + lo - 1 < la THEN c + lo - 1 ELSE la)
                - (IF c + lo - 1 > lb THEN c + lo - lb ELSE 1) + 1)] \o <<>>

BigMul(a, b) ==
  IF Len(a) = 0 \/ Len(b) = 0 THEN <<>>
  ELSE BigCarry(BigColumns(a, b, 1, Len(a) + Len(b) - 1))

BigAdd(a, b) ==
  BigCarry([i \in 1..(IF Len(a) > Len(b) THEN Len(a) ELSE Len(b)) |-> Limb(a, i) + Limb(b, i)] \o <<>>)

\* -1, 0, 1 as a[lo..hi] <, =, > (b * BigBase^j)[lo..hi]: the upper half
\* decides unless it is equal
RECURSIVE BigCmpRange(_, _, _, _, _)
BigCmpLower(upper, a, b, j, lo, hi) == IF upper # 0 THEN upper ELSE BigCmpRange(a, b, j, lo, hi)

BigCmpRange(a, b, j, lo, hi) ==
  IF lo > hi THEN 0
  ELSE IF lo = hi
    THEN (IF a[lo] < Limb(b, lo - j) THEN -1 ELSE IF a[lo] > Limb(b, lo - j) THEN 1 ELSE 0)
  ELSE BigCmpLower(BigCmpRange(a, b, j, ((lo + hi) \div 2) + 1, hi), a, b, j,
                   lo, (lo + hi) \div 2)

\* a compared with b * BigBase^j
BigCmpShift(a, b, j) ==
  IF Len(a) < Len(b) + j THEN -1
  ELSE IF Len(a) > Len(b) + j THEN 1
  ELSE BigCmpRange(a, b, j, 1, Len(a))

\* -1, 0, 1 as a <, =, > b
BigCmp(a, b) == BigCmpShift(a, b, 0)

\* a - b for a >= b
BigSub(a, b) == BigCarry([i \in 1..Len(a) |-> a[i] - Limb(b, i)] \o <<>>)

\* floor(a / BigBase^j)
BigShiftRight(a, j) == IF j >= Len(a) THEN <<>> ELSE SubSeq(a, j + 1, Len(a))

\* a mod BigBase^j
BigLow(a, j) == BigTrim(SubSeq(a, 1, IF j < Len(a) THEN j ELSE Len(a)))

\* a * BigBase^j
BigShiftLeft(a, j) == IF Len(a) = 0 THEN a ELSE [i \in 1..j |-> 0] \o a

\* a - q * b * BigBase^j, q one limb, the result not negative
BigSubMulColumns(a, b, q, j) == [i \in 1..(Len(a) - j) |-> a[i + j] - q * Limb(b, i)] \o <<>>

BigSubMulEnd(s) == BigTrim(s[1])

BigSubMul(a, b, q, j) ==
  BigSubMulEnd(BigCarryLoop(<<SubSeq(a, 1, j), 0>>, BigSubMulColumns(a, b, q, j), 1, Len(a) - j))

\* one digit of the long division: <<remainder, digit>> of a by b * BigBase^j
\* for a < b * BigBase^(j + 1), by guesses that never exceed the digit
RECURSIVE BigDigit(_, _, _, _)
BigDigit(a, b, j, digit) ==
  IF BigCmpShift(a, b, j) < 0 THEN <<a, digit>>
  ELSE LET p == Len(b) + j
           guess == (Limb(a, p + 1) * BigBase + Limb(a, p)) \div (b[Len(b)] + 1)
           q == IF guess < 1 THEN 1 ELSE guess
       IN  BigDigit(BigSubMul(a, b, q, j), b, j, digit + q)

\* the long division on <<quotient, remainder>>, digits hi down to lo, as
\* two halves; the pair the upper half leaves is looked at before the lower
\* half starts from it
BigDivShift(s, digit) == <<<<digit[2]>> \o s[1], digit[1]>>

RECURSIVE BigDivLoop(_, _, _, _)
BigDivLowerHalf(s, hi, lo, b) == IF Len(s) = 2 THEN BigDivLoop(s, hi, lo, b) ELSE s

BigDivLoop(s, hi, lo, b) ==
  IF hi < lo THEN s
  ELSE IF hi = lo THEN BigDivShift(s, BigDigit(s[2], b, hi, 0))
  ELSE BigDivLowerHalf(BigDivLoop(s, hi, ((hi + lo) \div 2) + 1, b), (hi + lo) \div 2, lo, b)

BigDivTrim(s) == <<BigTrim(s[1]), s[2]>>

\* <<a / b, a % b>> for b > 0
BigDivMod(a, b) ==
  IF Len(a) < Len(b) THEN <<<<>>, a>>
  ELSE BigDivTrim(BigDivLoop(<<<<>>, a>>, Len(a) - Len(b), 0, b))

BigDiv(a, b) == BigDivMod(a, b)[1]
BigMod(a, b) == BigDivMod(a, b)[2]

BigIsOdd(a) == Len(a) > 0 /\ a[1] % 2 = 1

\* a / 2n
BigHalf(a) ==
  BigTrim([i \in 1..Len(a) |-> (a[i] \div 2) + (Limb(a, i + 1) % 2) * (BigBase \div 2)] \o <<>>)

RECURSIVE BitLength(_)
BitLength(v) == IF v = 0 THEN 0 ELSE 1 + BitLength(v \div 2)

BigBitLength(a) == IF Len(a) = 0 THEN 0 ELSE (Len(a) - 1) * LimbBits + BitLength(a[Len(a)])

\* x % m for x < BigBase^(2 * Len(m)), given mu = BigBase^(2 * Len(m)) / m:
\* the quotient is guessed from the high limbs, never too large and at most
\* three too small, and the remainder corrected by subtracting m
BigReciprocal(m) == BigDiv(BigShiftLeft(<<1>>, 2 * Len(m)), m)

RECURSIVE BigCorrect(_, _)
BigCorrect(r, m) == IF BigCmp(r, m) >= 0 THEN BigCorrect(BigSub(r, m), m) ELSE r

BigModWith(x, m, mu) ==
  IF Len(x) < Len(m) THEN x ELSE
  LET k == Len(m)
      lo == IF k > 2 THEN k - 1 ELSE 1
      Columns(a, b, from, to) == IF Len(a) = 0 THEN <<>> ELSE BigCarry(BigColumns(a, b, from, to))
      High(q1) == Columns(q1, mu, lo, Len(q1) + Len(mu) - 1)
      Low(q3) == BigLow(Columns(q3, m, 1, Min(k + 1, Len(q3) + k - 1)), k + 1)
      Diff(r1, qm) == BigSub(IF BigCmp(r1, qm) >= 0 THEN r1
                             ELSE BigAdd(r1, BigShiftLeft(<<1>>, k + 1)), qm)
  IN  BigCorrect(Diff(BigLow(x, k + 1),
                      Low(BigShiftRight(High(BigShiftRight(x, k - 1)), k + 2 - lo))), m)

\* signed bigints, for the coefficients of modInverse: <<negative, magnitude>>
Signed(neg, mag) == <<neg /\ Len(mag) > 0, mag>>

\* u - v
SignedSub(u, v) ==
  IF u[1] # v[1] THEN Signed(u[1], BigAdd(u[2], v[2]))
  ELSE IF BigCmp(u[2], v[2]) >= 0 THEN Signed(u[1], BigSub(u[2], v[2]))
  ELSE Signed(~u[1], BigSub(v[2], u[2]))

\* q * v for q >= 0
SignedMul(q, v) == Signed(v[1], BigMul(q, v[2]))

\* bytes, most significant first, to a bigint and back (the low len bytes)
BigFromBytes(bytes) ==
  LET n == Len(bytes)
      groups == (n + 2) \div 3
      At(p) == IF p >= 1 THEN bytes[p] ELSE 0
      Group(t) == At(n - 3 * t + 1) * 65536 + At(n - 3 * t + 2) * 256 + At(n - 3 * t + 3)
  IN  BigTrim([i \in 1..(2 * groups) |->
                 IF i % 2 = 1 THEN Group((i + 1) \div 2) % BigBase
                 ELSE Group(i \div 2) \div BigBase] \o <<>>)

BigToBytes(x, len) ==
  LET Group(t) == Limb(x, 2 * t + 1) + BigBase * Limb(x, 2 * t + 2)
      Place(r) == IF r = 0 THEN 1 ELSE IF r = 1 THEN 256 ELSE 65536
  IN  [i \in 1..len |-> (Group((len - i) \div 3) \div Place((len - i) % 3)) % 256] \o <<>>

\* n.toString(16).length
HexLength(n) == IF Len(n) = 0 THEN 1 ELSE (BigBitLength(n) + 3) \div 4

\* ------------------------------------------------------------------------
\* Section 1 of the RSA file: math

BigOne == <<1>>

\* (x * y) % mod, mu the reciprocal of mod
ModMul(x, y, mod, mu) == BigModWith(BigMul(x, y), mod, mu)

\* one turn of the loop of modPow on <<res, base, exp>>
modPowStep(s, mod, mu) ==
  <<IF BigIsOdd(s[3]) THEN ModMul(s[1], s[2], mod, mu) ELSE s[1],
    ModMul(s[2], s[2], mod, mu),
    BigHalf(s[3])>>

\* turns of the loop, as two halves; the triple the first half leaves is
\* looked at before the second half starts from it
RECURSIVE modPowLoop(_, _, _, _)
modPowSecondHalf(s, turns, mod, mu) == IF Len(s) = 3 THEN modPowLoop(s, turns, mod, mu) ELSE s

modPowLoop(s, turns, mod, mu) ==
  IF turns = 0 THEN s
  ELSE IF turns = 1 THEN modPowStep(s, mod, mu)
  ELSE modPowSecondHalf(modPowLoop(s, turns \div 2, mod, mu), turns - (turns \div 2), mod, mu)

\* the loop runs while exp > 0, once per bit of exp
modPowFrom(base, exp, mod, mu) ==
  IF Len(base) <= Len(mu) THEN modPowLoop(<<BigOne, base, exp>>, BigBitLength(exp), mod, mu)[1]
  ELSE base

\* base = base % mod, and the reciprocal of mod, before the loop starts
modPow(base, exp, mod) == modPowFrom(BigMod(base, mod), exp, mod, BigReciprocal(mod))

\* one turn of the loop of modInverse on <<a, m, x, y, at>>, qr = <<a / m, a % m>>
modInverseTurn(s, qr) ==
  <<s[2], qr[2], s[4], SignedSub(s[3], SignedMul(qr[1], s[4])), "loop">>

\* the loop runs while a > 1; a quotient by m = 0 throws
modInverseStep(s) ==
  IF s[5] # "loop" THEN s
  ELSE IF BigCmp(s[1], BigOne) <= 0 THEN [s EXCEPT ![5] = "done"]
  ELSE IF Len(s[2]) = 0 THEN [s EXCEPT ![5] = "DivisionByZero"]
  ELSE modInverseTurn(s, BigDivMod(s[1], s[2]))

RECURSIVE modInverseLoop(_, _)
modInverseSecondHalf(s, turns) == IF Len(s) = 5 THEN modInverseLoop(s, turns) ELSE s

modInverseLoop(s, turns) ==
  IF turns = 0 THEN s
  ELSE IF turns = 1 THEN modInverseStep(s)
  ELSE modInverseSecondHalf(modInverseLoop(s, turns \div 2), turns - (turns \div 2))

\* if (x < 0n) x += m0
modInverseReturn(s, m0) ==
  IF s[5] = "DivisionByZero" THEN [err |-> "DivisionByZero", value |-> <<>>]
  ELSE [err |-> "", value |-> IF s[3][1] THEN BigSub(m0, s[3][2]) ELSE s[3][2]]

\* modInverse; the turns given to the loop are more than it can take
modInverse(a0, m0) ==
  IF m0 = BigOne THEN [err |-> "", value |-> <<>>]
  ELSE modInverseReturn(
         modInverseLoop(<<a0, m0, Signed(FALSE, BigOne), Signed(FALSE, <<>>), "loop">>,
                        2 * (BigBitLength(a0) + BigBitLength(m0)) + 2), m0)

\* isPrime; draws[i] / 256 is what Math.random() returns in round i
MillerRabinRounds == 5

\* <<d, r>> with d odd and d * 2^r the d given, r counted from the r given
RECURSIVE isPrimeFactor(_, _)
isPrimeFactor(d, r) == IF BigIsOdd(d) THEN <<d, r>> ELSE isPrimeFactor(BigHalf(d), r + 1)

\* the inner loop from j on: TRUE when some square is n - 1
RECURSIVE isPrimeSquares(_, _, _, _)
isPrimeSquared(x, j, r, n) ==
  IF x = BigSub(n, BigOne) THEN TRUE ELSE isPrimeSquares(x, j + 1, r, n)

isPrimeSquares(x, j, r, n) ==
  IF j >= r - 1 THEN FALSE ELSE isPrimeSquared(BigMod(BigMul(x, x), n), j, r, n)

\* a of round i
isPrimeBase(n, draw) ==
  BigAdd(<<2>>, BigDiv(BigMul(BigFromInt(draw), BigSub(n, <<4>>)), <<256>>))

\* the witness loop from round i on, x being modPow(a, d, n) of round i
RECURSIVE isPrimeWitness(_, _, _, _)
isPrimeRound(x, i, n, dr, draws) ==
  IF x = BigOne \/ x = BigSub(n, BigOne) \/ isPrimeSquares(x, 0, dr[2], n)
    THEN isPrimeWitness(i + 1, n, dr, draws)
    ELSE FALSE

isPrimeWitness(i, n, dr, draws) ==
  IF i > MillerRabinRounds THEN TRUE
  ELSE isPrimeRound(modPow(isPrimeBase(n, draws[i]), dr[1], n), i, n, dr, draws)

isPrime(n, draws) ==
  IF BigCmp(n, BigOne) <= 0 \/ n = <<4>> THEN FALSE
  ELSE IF BigCmp(n, <<3>>) <= 0 THEN TRUE
  ELSE isPrimeWitness(1, n, isPrimeFactor(BigSub(n, BigOne), 0), draws)

\* getRandomBigInt; bytes are the Math.ceil(bits / 8) bytes drawn
getRandomBigInt(bits, bytes) ==
  LET n == Len(bytes)
      masked == IF n > 0 /\ bits % 8 # 0
                  THEN [bytes EXCEPT ![1] = bytes[1] % (2 ^ (bits % 8))] ELSE bytes
      odd == IF n > 0
               THEN [masked EXCEPT ![n] = masked[n] + (IF masked[n] % 2 = 0 THEN 1 ELSE 0)]
               ELSE masked
  IN  BigFromBytes(odd)

\* what generatePrime does with one candidate: "filtered" (continue),
\* "composite" (isPrime failed) or "prime" (returned)
CandidateVerdict(candidate, draws) ==
  IF \E small \in {3, 5, 7} : Len(BigMod(candidate, <<small>>)) = 0 THEN "filtered"
  ELSE IF isPrime(candidate, draws) THEN "prime"
  ELSE "composite"

os2ip(bytes) == BigFromBytes(bytes)

i2osp(x, len) == BigToBytes(x, len)

\* ------------------------------------------------------------------------
\* Section 2 of the RSA file: SHA-256.  A 32-bit word is <<high 16 bits,
\* low 16 bits>>.

Xor16(a, b) == XorTab[a \div 256][b \div 256] * 256 + XorTab[a % 256][b % 256]

\* a & b, from a + b = (a ^ b) + 2 * (a & b)
And16(a, b) == (a + b - Xor16(a, b)) \div 2

WordXor(x, y) == <<Xor16(x[1], y[1]), Xor16(x[2], y[2])>>
WordAnd(x, y) == <<And16(x[1], y[1]), And16(x[2], y[2])>>
WordNot(x) == <<65535 - x[1], 65535 - x[2]>>

\* the sum of the words of a tuple, >>> 0
WordSum(ws) ==
  LET lo == BagCardinality([i \in 1..Len(ws) |-> ws[i][2] + 1]) - Len(ws)
      hi == BagCardinality([i \in 1..Len(ws) |-> ws[i][1] + 1]) - Len(ws)
  IN  <<(hi + (lo \div 65536)) % 65536, lo % 65536>>

\* (x >>> n) | (x << (32 - n)), 0 < n < 32
rrot(x, n) ==
  LET y == IF n >= 16 THEN <<x[2], x[1]>> ELSE x
      m == n % 16
  IN  <<(y[1] \div (2 ^ m)) + (y[2] % (2 ^ m)) * (2 ^ (16 - m)),
        (y[2] \div (2 ^ m)) + (y[1] % (2 ^ m)) * (2 ^ (16 - m))>>

\* x >>> n, 0 < n < 16
WordShr(x, n) ==
  <<x[1] \div (2 ^ n), (x[2] \div (2 ^ n)) + (x[1] % (2 ^ n)) * (2 ^ (16 - n))>>

\* private h: the initial hash value
Sha256H ==
  <<<<27145, 58983>>, <<47975, 44677>>, <<15470, 62322>>, <<42319, 62778>>,
     <<20750, 21119>>, <<39685, 26764>>, <<8067, 55723>>, <<23520, 52505>> >>

\* private k: the round constants
Sha256K ==
  <<<<17034, 12184>>, <<28983, 17553>>, <<46528, 64463>>, <<59829, 56229>>,
     <<14678, 49755>>, <<23025, 4593>>, <<37439, 33444>>, <<43804, 24277>>,
     <<55303, 43672>>, <<4739, 23297>>, <<9265, 34238>>, <<21772, 32195>>,
     <<29374, 23924>>, <<32990, 45566>>, <<39900, 1703>>, <<49563, 61812>>,
     <<58523, 27073>>, <<61374, 18310>>, <<4033, 40390>>, <<9228, 41420>>,
     <<11753, 11375>>, <<19060, 33962>>, <<23728, 43484>>, <<30457, 35034>>,
     <<38974, 20818>>, <<43057, 50797>>, <<45059, 10184>>, <<48985, 32711>>,
     <<50912, 3059>>, <<54695, 37191>>, <<1738, 25425>>, <<5161, 10599>>,
     <<10167, 2693>>, <<11803, 8504>>, <<19756, 28156>>, <<21304, 3347>>,
     <<25866, 29524>>, <<30314, 2747>>, <<33218, 51502>>, <<37490, 11397>>,
     <<41663, 59553>>, <<43034, 26187>>, <<49739, 35696>>, <<51052, 20899>>,
     <<53650, 59417>>, <<54937, 1572>>, <<62478, 13701>>, <<4202, 41072>>,
     <<6564, 49430>>, <<7735, 27656>>, <<10056, 30540>>, <<13488, 48309>>,
     <<14620, 3251>>, <<20184, 43594>>, <<23452, 51791>>, <<26670, 28659>>,
     <<29839, 33518>>, <<30885, 25455>>, <<33992, 30740>>, <<36039, 520>>,
     <<37054, 65530>>, <<42064, 27883>>, <<48889, 41975>>, <<50801, 30962>> >>

\* the padded message: data, 0x80, zeros, the bit length on 64 bits
Sha256Padded(data) ==
  LET bitLen == Len(data) * 8
      padLen == ((56 - ((Len(data) + 1) % 64)) + 64) % 64
  IN  data \o <<128>> \o Fill(padLen, 0) \o <<0, 0, 0, 0>>
        \o <<(bitLen \div 16777216) % 256, (bitLen \div 65536) % 256,
             (bitLen \div 256) % 256, bitLen % 256>>

\* s0 and s1 of the message schedule
Sha256SmallSigma0(x) == WordXor(WordXor(rrot(x, 7), rrot(x, 18)), WordShr(x, 3))
Sha256SmallSigma1(x) == WordXor(WordXor(rrot(x, 17), rrot(x, 19)), WordShr(x, 10))

\* w[j] for j from 16 on, w holding w[0..j-1]
Sha256Extend(w, j) ==
  Append(w, WordSum(<<w[j - 15], Sha256SmallSigma0(w[j - 14]), w[j - 6],
                      Sha256SmallSigma1(w[j - 1])>>))

RECURSIVE Sha256ExtendLoop(_, _, _)
Sha256ExtendSecondHalf(w, lo, hi) == IF Len(w) >= 16 THEN Sha256ExtendLoop(w, lo, hi) ELSE w

\* the loop that extends w, for j = lo .. hi (the range is halved so that the
\* evaluation stays shallow)
Sha256ExtendLoop(w, lo, hi) ==
  IF lo > hi THEN w
  ELSE IF lo = hi THEN Sha256Extend(w, lo)
  ELSE Sha256ExtendSecondHalf(Sha256ExtendLoop(w, lo, (lo + hi) \div 2),
                              ((lo + hi) \div 2) + 1, hi)

\* w[j] for j below 16, of the block that starts at byte i (0-based)
Sha256BlockWord(padded, i, j) ==
  <<padded[i + 4 * j - 3] * 256 + padded[i + 4 * j - 2],
    padded[i + 4 * j - 1] * 256 + padded[i + 4 * j]>>

\* w[0..63] of the block that starts at byte i (0-based)
Sha256Schedule(padded, i) ==
  Sha256ExtendLoop([j \in 1..16 |-> Sha256BlockWord(padded, i, j)] \o <<>>, 16, 63)

\* S1, ch and temp1; S0, maj and temp2
Sha256BigSigma1(e) == WordXor(WordXor(rrot(e, 6), rrot(e, 11)), rrot(e, 25))
Sha256Ch(e, f, g) == WordXor(WordAnd(e, f), WordAnd(WordNot(e), g))
Sha256Temp1(v, kj, wj) == WordSum(<<v[8], Sha256BigSigma1(v[5]), Sha256Ch(v[5], v[6], v[7]), kj, wj>>)
Sha256BigSigma0(a) == WordXor(WordXor(rrot(a, 2), rrot(a, 13)), rrot(a, 22))
Sha256Maj(a, b, c) == WordXor(WordXor(WordAnd(a, b), WordAnd(a, c)), WordAnd(b, c))
Sha256Temp2(v) == WordSum(<<Sha256BigSigma0(v[1]), Sha256Maj(v[1], v[2], v[3])>>)

\* the two lines of assignments of the round loop, on <<a, b, c, d, e, f, g, h>>:
\*   h = g; g = f; f = e; d = (d + temp1) >>> 0;
\*   e = (temp1 + temp2) >>> 0; e = d + temp1 >>> 0; e = temp1 + d; e = d;
Sha256FirstAssignments(v, temp1) ==
  <<v[1], v[2], v[3], WordSum(<<v[4], temp1>>), WordSum(<<v[4], temp1>>), v[5], v[6], v[7]>>

\*   h=g; g=f; f=e; e=(d+temp1)>>>0; d=c; c=b; b=a; a=(temp1+temp2)>>>0;
Sha256SecondAssignments(v, temp1, temp2) ==
  <<WordSum(<<temp1, temp2>>), v[1], v[2], v[3], WordSum(<<v[4], temp1>>), v[5], v[6], v[7]>>

Sha256Assignments(v, temp1, temp2) ==
  Sha256SecondAssignments(Sha256FirstAssignments(v, temp1), temp1, temp2)

\* one pass of the round loop on <<a, b, c, d, e, f, g, h>>
Sha256Round(v, kj, wj) == Sha256Assignments(v, Sha256Temp1(v, kj, wj), Sha256Temp2(v))

RECURSIVE Sha256RoundLoop(_, _, _, _)
Sha256RoundSecondHalf(v, lo, hi, w) == IF Len(v) = 8 THEN Sha256RoundLoop(v, lo, hi, w) ELSE v

\* the round loop for j = lo .. hi (the range is halved)
Sha256RoundLoop(v, lo, hi, w) ==
  IF lo > hi THEN v
  ELSE IF lo = hi THEN Sha256Round(v, Sha256K[lo + 1], w[lo + 1])
  ELSE Sha256RoundSecondHalf(Sha256RoundLoop(v, lo, (lo + hi) \div 2, w),
                             ((lo + hi) \div 2) + 1, hi, w)

\* this.h[x] = (this.h[x] + a..h) >>> 0
Sha256AddState(hs, v) == [x \in 1..8 |-> WordSum(<<hs[x], v[x]>>)] \o <<>>

\* the hash state after the block that starts at byte i
Sha256Rounds(hs, w) ==
  IF Len(w) = 64 THEN Sha256AddState(hs, Sha256RoundLoop(hs, 0, 63, w)) ELSE hs

Sha256Compress(hs, padded, i) == Sha256Rounds(hs, Sha256Schedule(padded, i))

RECURSIVE Sha256BlockLoop(_, _, _)
Sha256BlockNext(hs, padded, i) == IF Len(hs) = 8 THEN Sha256BlockLoop(hs, padded, i) ELSE hs

\* the loop over the blocks, from byte i on
Sha256BlockLoop(hs, padded, i) ==
  IF i >= Len(padded) THEN hs
  ELSE Sha256BlockNext(Sha256Compress(hs, padded, i), padded, i + 64)

\* process: the hash state after every block of the padded data
Sha256Process(data) == Sha256BlockLoop(Sha256H, Sha256Padded(data), 0)

\* byte i (1-based) of the words of hs written big endian
Sha256ResultByte(hs, i) ==
  IF i % 2 = 1 THEN hs[(i + 3) \div 4][IF (i - 1) % 4 < 2 THEN 1 ELSE 2] \div 256
  ELSE hs[(i + 3) \div 4][IF (i - 1) % 4 < 2 THEN 1 ELSE 2] % 256

Sha256Result(hs) == [i \in 1..32 |-> Sha256ResultByte(hs, i)] \o <<>>

sha256(data) == Sha256Result(Sha256Process(data))

\* ------------------------------------------------------------------------
\* Section 3 of the RSA file: OAEP

HashLen == 32

\* setUint32(0, counter, false)
CounterBytes(counter) ==
  <<(counter \div 16777216) % 256, (counter \div 65536) % 256,
    (counter \div 256) % 256, counter % 256>>

RECURSIVE Mgf1Loop(_, _, _, _)
Mgf1Next(t, seed, counter, len) == IF Len(t) >= 0 THEN Mgf1Loop(t, seed, counter, len) ELSE t

\* the loop of mgf1; t holds the offset bytes written so far
Mgf1Loop(t, seed, counter, len) ==
  IF Len(t) >= len THEN t
  ELSE Mgf1Next(t \o sha256(seed \o CounterBytes(counter)), seed, counter + 1, len)

mgf1(seed, len) == SubSeq(Mgf1Loop(<<>>, seed, 0, len), 1, len)

\* a[i] ^ b[i] over the length of a (a missing b[i] counts as 0)
xor(a, b) == [i \in 1..Len(a) |-> IF i <= Len(b) THEN Xor(a[i], b[i]) ELSE a[i]] \o <<>>

\* a bound that counts the hash once
oaepMaxLenOneHash(k) == k - HashLen - 2

\* maxLen of oaepPad
oaepMaxLen(k) == k - 2 * HashLen - 2

\* db of oaepPad: lHash, ps, 0x01, message
OaepDb(message, k) ==
  sha256(<<>>) \o Fill(k - Len(message) - 2 * HashLen - 2, 0) \o <<1>> \o message

\* em of oaepPad: 0x00, maskedSeed, maskedDB
OaepEncoded(seed, maskedDB) ==
  [err |-> "", out |-> <<0>> \o xor(seed, mgf1(maskedDB, HashLen)) \o maskedDB]

\* oaepPad; seed is the hLen bytes drawn from Math.random
oaepPad(message, k, seed) ==
  IF Len(message) > oaepMaxLen(k) THEN [err |-> "MessageTooLong", out |-> <<>>]
  ELSE IF k - Len(message) - 2 * HashLen - 2 < 0 THEN [err |-> "RangeError", out |-> <<>>]
  ELSE OaepEncoded(seed, xor(OaepDb(message, k), mgf1(seed, k - HashLen - 1)))

\* the index (0-based) of the first byte of db from hLen on that is not 0
RECURSIVE SkipZeros(_, _)
SkipZeros(db, index) ==
  IF index < Len(db) /\ db[index + 1] = 0 THEN SkipZeros(db, index + 1) ELSE index

\* seed and db of oaepUnpad
OaepSeed(maskedSeed, maskedDB) == xor(maskedSeed, mgf1(maskedDB, HashLen))
OaepUnmasked(maskedDB, seed, k) == xor(maskedDB, mgf1(seed, k - HashLen - 1))

\* the message after the 0x01 at index
OaepMessage(db, index) ==
  IF index >= Len(db) \/ db[index + 1] # 1 THEN [err |-> "PaddingInvalid", out |-> <<>>]
  ELSE [err |-> "", out |-> Sub(db, index + 1, Len(db))]

\* the checks of oaepUnpad on db
OaepChecked(db, lHash) ==
  IF \E i \in 1..HashLen : i > Len(db) \/ db[i] # lHash[i]
    THEN [err |-> "HashMismatch", out |-> <<>>]
  ELSE OaepMessage(db, SkipZeros(db, HashLen))

OaepSplit(maskedSeed, maskedDB, k) ==
  OaepChecked(OaepUnmasked(maskedDB, OaepSeed(maskedSeed, maskedDB), k), sha256(<<>>))

oaepUnpad(em, k) ==
  IF Len(em) = 0 \/ em[1] # 0 THEN [err |-> "FirstByteNotZero", out |-> <<>>]
  ELSE IF k - HashLen - 1 < 0 THEN [err |-> "RangeError", out |-> <<>>]
  ELSE OaepSplit(Sub(em, 1, 1 + HashLen), Sub(em, 1 + HashLen, Len(em)), k)

\* ------------------------------------------------------------------------
\* Section 4 of the RSA file: ASN.1/DER

\* the bytes of len, most significant first, none for 0
RECURSIVE LenBytes(_)
LenBytes(len) == IF len <= 0 THEN <<>> ELSE LenBytes(len \div 256) \o <<len % 256>>

encodeLenBytes(len) ==
  IF len < 128 THEN <<len>>
  ELSE <<128 + Len(LenBytes(len))>> \o LenBytes(len)

\* the bytes of the hex digits of n, an odd count of digits made even with '0'
HexBytes(n) == BigToBytes(n, (HexLength(n) + 1) \div 2)

\* an encoding that leaves the bytes as they are
encodeIntegerUnsigned(n) == HexBytes(n)

SignedBytes(bytes) == IF bytes[1] >= 128 THEN <<0>> \o bytes ELSE bytes

encodeInteger(n) == SignedBytes(HexBytes(n))

RECURSIVE Concat(_)
Concat(items) == IF Len(items) = 0 THEN <<>> ELSE Head(items) \o Concat(Tail(items))

DerHeader(tag, payload) == <<tag>> \o encodeLenBytes(Len(payload)) \o payload

encodeSequence(items) == DerHeader(48, Concat(items))

createDerInt(n) == DerHeader(2, encodeInteger(n))

encodePublicKeyDER(n, e) == encodeSequence(<<createDerInt(n), createDerInt(e)>>)

encodePrivateKeyDER(n, e, d, p, q, dP, dQ, qInv) ==
  encodeSequence(<<createDerInt(<<>>), createDerInt(n), createDerInt(e), createDerInt(d),
                   createDerInt(p), createDerInt(q), createDerInt(dP), createDerInt(dQ),
                   createDerInt(qInv)>>)

\* data[i] for a 0-based i, -1 for undefined
At(data, i) == IF i >= 0 /\ i < Len(data) THEN data[i + 1] ELSE -1

\* (len << 8) | b on 32-bit integers
ShiftInByte(len, b) ==
  LET low == len % 16777216
      byte == IF b < 0 THEN 0 ELSE b
  IN  IF low >= 8388608 THEN (low - 16777216) * 256 + byte ELSE low * 256 + byte

\* the offset after a length byte len read at offset - 1: if (len & 0x80)
\* offset += len & 0x7f
SkipLength(len, offset) == IF len >= 128 THEN offset + (len % 128) ELSE offset

\* the loop of parseDerInt over the byteCount length bytes from at
RECURSIVE ReadLength(_, _, _, _)
ReadLength(data, at, byteCount, len) ==
  IF byteCount = 0 THEN len
  ELSE ReadLength(data, at + 1, byteCount - 1, ShiftInByte(len, At(data, at)))

DerIntFailed(e, offset) == [err |-> e, value |-> <<>>, offset |-> offset]

\* the len content bytes from start: BigInt("0x") is a SyntaxError, and an
\* undefined byte has no toString
parseDerIntValue(data, start, len) ==
  IF len <= 0 THEN DerIntFailed("SyntaxError", start)
  ELSE IF start + len > Len(data) THEN DerIntFailed("TypeError", Len(data) + 1)
  ELSE [err |-> "", value |-> BigFromBytes(SubSeq(data, start + 1, start + len)),
        offset |-> start + len]

\* first is the length byte, start the offset after it
parseDerIntLength(data, start, first) ==
  IF first >= 128
    THEN parseDerIntValue(data, start + (first % 128), ReadLength(data, start, first % 128, 0))
    ELSE parseDerIntValue(data, start, first)

\* parseDerInt: [err, value, offset]
parseDerInt(data, offset) ==
  IF At(data, offset) # 2 THEN DerIntFailed("NotAnInt", offset + 1)
  ELSE parseDerIntLength(data, offset + 2, At(data, offset + 1))

\* the least i >= from (0-based) with data[i] = tag, Len(data) if none
FindTag(data, from, tag) ==
  IF \E i \in from..(Len(data) - 1) : data[i + 1] = tag
    THEN CHOOSE i \in from..(Len(data) - 1) :
           data[i + 1] = tag /\ \A j \in from..(i - 1) : data[j + 1] # tag
    ELSE Len(data)

Dashes == <<45, 45, 45, 45, 45>>
BeginMark == <<45, 45, 45, 45, 45, 66, 69, 71, 73, 78>>
EndMark == <<45, 45, 45, 45, 45, 69, 78, 68>>
BeginPrivateKey == <<66, 69, 71, 73, 78, 32, 80, 82, 73, 86, 65, 84, 69, 32, 75, 69, 89>>
LabelPublicKey == <<80, 85, 66, 76, 73, 67, 32, 75, 69, 89>>
LabelRsaPrivateKey == <<82, 83, 65, 32, 80, 82, 73, 86, 65, 84, 69, 32, 75, 69, 89>>
Newline == 10

\* the characters . does not match, and those \s matches
LineTerminators == {10, 13, 8232, 8233}
WhiteSpace == {9, 10, 11, 12, 13, 32, 160, 5760, 8232, 8233, 8239, 8287, 12288, 65279} \cup (8192..8202)

\* str has sub at the 1-based position i
HasAt(str, sub, i) ==
  i >= 1 /\ i + Len(sub) - 1 <= Len(str) /\ SubSeq(str, i, i + Len(sub) - 1) = sub

\* pem.includes(sub)
Includes(str, sub) == \E i \in 1..(Len(str) - Len(sub) + 1) : HasAt(str, sub, i)

\* where the match of mark.*?----- that starts at i ends (its last position),
\* 0 if there is none
MatchEnd(str, mark, i) ==
  LET from == i + Len(mark)
      Ends == {j \in from..(Len(str) - 4) :
                 /\ HasAt(str, Dashes, j)
                 /\ \A x \in from..(j - 1) : str[x] \notin LineTerminators}
  IN  IF HasAt(str, mark, i) /\ Ends # {}
        THEN (CHOOSE j \in Ends : \A j2 \in Ends : j <= j2) + 4
        ELSE 0

\* str.replace(/mark.*?-----/g, ""): what is left of str from position from
\* on, match after match
RECURSIVE RemoveMarkedFrom(_, _, _)
RemoveMatch(str, mark, from, i) ==
  SubSeq(str, from, i - 1) \o RemoveMarkedFrom(str, mark, MatchEnd(str, mark, i) + 1)

RemoveMarkedFrom(str, mark, from) ==
  IF \E i \in from..Len(str) : MatchEnd(str, mark, i) > 0
    THEN RemoveMatch(str, mark, from,
                     CHOOSE i \in from..Len(str) :
                       MatchEnd(str, mark, i) > 0
                         /\ \A j \in from..(i - 1) : MatchEnd(str, mark, j) = 0)
    ELSE SubSeq(str, from, Len(str))

RemoveMarked(str, mark) == RemoveMarkedFrom(str, mark, 1)

NotWhiteSpace(c) == c \notin WhiteSpace

\* the same statements as base64ToBytes of the AES file
base64ToArrayBuffer(base64) == base64ToBytes(base64)

\* ------------------------------------------------------------------------
\* Section 5 of the RSA file: PEM

pemToArrayBuffer(pem) ==
  base64ToArrayBuffer(SelectSeq(RemoveMarked(RemoveMarked(pem, BeginMark), EndMark),
                                NotWhiteSpace))

\* base64.match(/.{1,64}/g)?.join("\n") || "" on Base64 text
Lines64(base64) ==
  LET n == Len(base64)
  IN  [i \in 1..(n + ((n - 1) \div 64)) |->
         IF i % 65 = 0 THEN Newline ELSE base64[i - (i \div 65)]] \o <<>>

toPem(buffer, label) ==
  LET base64 == arrayBufferToBase64(buffer)
      formattedBase64 == IF Len(base64) = 0 THEN <<>> ELSE Lines64(base64)
  IN  BeginMark \o <<32>> \o label \o Dashes \o <<Newline>> \o formattedBase64
        \o <<Newline>> \o EndMark \o <<32>> \o label \o Dashes

PublicKeyFailed(e) == [err |-> e, n |-> <<>>, e |-> <<>>]

ParsePublicReturn(n, e) ==
  IF e.err # "" THEN PublicKeyFailed(e.err) ELSE [err |-> "", n |-> n.value, e |-> e.value]

ParsePublicExponent(buffer, n) ==
  IF n.err # "" THEN PublicKeyFailed(n.err)
  ELSE ParsePublicReturn(n, parseDerInt(buffer, n.offset))

ParsePublicInts(buffer, offset) == ParsePublicExponent(buffer, parseDerInt(buffer, offset))

\* afterBits is the offset of the inner RSAPublicKey sequence
ParseSpkiInner(buffer, afterBits) ==
  IF At(buffer, afterBits) # 48 THEN PublicKeyFailed("InnerNotSequence")
  ELSE ParsePublicInts(buffer, SkipLength(At(buffer, afterBits + 1), afterBits + 2))

\* bitString is where the search for the tag 0x03 stopped
ParseSpki(buffer, bitString) ==
  IF bitString >= Len(buffer) THEN PublicKeyFailed("UnknownKeyFormat")
  ELSE ParseSpkiInner(buffer, SkipLength(At(buffer, bitString + 1), bitString + 2) + 1)

ParsePublicAfterSequence(buffer, afterSeq) ==
  IF At(buffer, afterSeq) = 48 THEN ParseSpki(buffer, FindTag(buffer, afterSeq, 3))
  ELSE ParsePublicInts(buffer, afterSeq)

ParsePublicKey(buffer) ==
  IF At(buffer, 0) # 48 THEN PublicKeyFailed("InvalidDER")
  ELSE ParsePublicAfterSequence(buffer, SkipLength(At(buffer, 1), 2))

\* parsePublicKeyPEM: [err, n, e]
parsePublicKeyPEM(pem) == ParsePublicKey(pemToArrayBuffer(pem))

PrivateKeyFailed(e) == [err |-> e, n |-> <<>>, d |-> <<>>]

ParsePrivateReturn(n, d) ==
  IF d.err # "" THEN PrivateKeyFailed(d.err) ELSE [err |-> "", n |-> n.value, d |-> d.value]

ParsePrivateD(buffer, n, e) ==
  IF e.err # "" THEN PrivateKeyFailed(e.err)
  ELSE ParsePrivateReturn(n, parseDerInt(buffer, e.offset))

ParsePrivateE(buffer, n) ==
  IF n.err # "" THEN PrivateKeyFailed(n.err)
  ELSE ParsePrivateD(buffer, n, parseDerInt(buffer, n.offset))

ParsePrivateInts(buffer, offset) == ParsePrivateE(buffer, parseDerInt(buffer, offset))

\* inner is the version of the inner sequence
ParsePkcs8Version(buffer, inner) ==
  IF inner.err # "" THEN PrivateKeyFailed(inner.err) ELSE ParsePrivateInts(buffer, inner.offset)

\* afterOctets is the offset of the inner RSAPrivateKey sequence
ParsePkcs8Inner(buffer, afterOctets) ==
  IF At(buffer, afterOctets) # 48 THEN PrivateKeyFailed("InnerNotSequence")
  ELSE ParsePkcs8Version(buffer,
         parseDerInt(buffer, SkipLength(At(buffer, afterOctets + 1), afterOctets + 2)))

\* octets is where the search for the tag 0x04 stopped
ParsePkcs8(buffer, octets) ==
  IF octets >= Len(buffer) THEN PrivateKeyFailed("UnknownKeyFormat")
  ELSE ParsePkcs8Inner(buffer, SkipLength(At(buffer, octets + 1), octets + 2))

ParsePrivateAfterVersion(buffer, version, pkcs8) ==
  IF version.err # "" THEN PrivateKeyFailed(version.err)
  ELSE IF pkcs8 THEN ParsePkcs8(buffer, FindTag(buffer, version.offset, 4))
  ELSE ParsePrivateInts(buffer, version.offset)

ParsePrivateKey(buffer, pkcs8) ==
  IF At(buffer, 0) # 48 THEN PrivateKeyFailed("InvalidDER")
  ELSE ParsePrivateAfterVersion(buffer, parseDerInt(buffer, SkipLength(At(buffer, 1), 2)), pkcs8)

\* parsePrivateKeyPEM: [err, n, d]
parsePrivateKeyPEM(pem) == ParsePrivateKey(pemToArrayBuffer(pem), Includes(pem, BeginPrivateKey))

\* ------------------------------------------------------------------------
\* The exported functions of the RSA file

\* k: (n.toString(16).length + 1) >> 1
ModulusBytes(n) == (HexLength(n) + 1) \div 2

NoCipher(e, k) == [err |-> e, out |-> <<>>, k |-> k, padded |-> <<>>, msgBytes |-> <<>>]

\* rsaEncrypt from the padded message on
RsaEncryptReturn(padded, key, k, msgBytes) ==
  IF padded.err # "" THEN NoCipher(padded.err, k)
  ELSE IF Len(key.n) = 0 THEN NoCipher("DivisionByZero", k)
  ELSE [err |-> "",
        out |-> arrayBufferToBase64(i2osp(modPow(os2ip(padded.out), key.e, key.n), k)),
        k |-> k, padded |-> padded.out, msgBytes |-> msgBytes]

\* rsaEncrypt from the parsed key on
RsaEncryptWithKey(key, k, msgBytes, seed) ==
  IF key.err # "" THEN NoCipher(key.err, 0)
  ELSE RsaEncryptReturn(oaepPad(msgBytes, k, seed), key, k, msgBytes)

RsaEncryptParsed(key, msgBytes, seed) ==
  RsaEncryptWithKey(key, ModulusBytes(key.n), msgBytes, seed)

\* rsaEncrypt; seed is what oaepPad draws.  out is the Base64 text returned,
\* padded what oaepPad returned
rsaEncrypt(plaintext, publicKeyPem, seed) ==
  RsaEncryptParsed(parsePublicKeyPEM(publicKeyPem), stringToUtf8Bytes(plaintext), seed)

NoPlain(e) == [err |-> e, out |-> <<>>, padded |-> <<>>, msgBytes |-> <<>>]

\* rsaDecrypt from the unpadded message on
RsaDecryptReturn(unpadded, padded) ==
  IF unpadded.err # "" THEN NoPlain(unpadded.err)
  ELSE [err |-> "", out |-> utf8BytesToString(unpadded.out), padded |-> padded,
        msgBytes |-> unpadded.out]

RsaDecryptPadded(padded, k) == RsaDecryptReturn(oaepUnpad(padded, k), padded)

\* rsaDecrypt from the parsed key on
RsaDecryptWithKey(key, k, cBytes) ==
  IF key.err # "" THEN NoPlain(key.err)
  ELSE IF Len(key.n) = 0 THEN NoPlain("DivisionByZero")
  ELSE RsaDecryptPadded(i2osp(modPow(os2ip(cBytes), key.d, key.n), k), k)

RsaDecryptParsed(key, cBytes) == RsaDecryptWithKey(key, ModulusBytes(key.n), cBytes)

\* rsaDecrypt; out is the text returned, msgBytes what oaepUnpad returned
rsaDecrypt(ciphertext, privateKeyPem) ==
  RsaDecryptParsed(parsePrivateKeyPEM(privateKeyPem), base64ToArrayBuffer(ciphertext))

PublicExponent == <<1, 16>>                    \* 65537n

NoKey(e, p, q) ==
  [err |-> e, publicKey |-> <<>>, privateKey |-> <<>>, p |-> p, q |-> q, n |-> BigMul(p, q),
   phi |-> BigMul(BigSub(p, BigOne), BigSub(q, BigOne)), e |-> PublicExponent, d |-> <<>>]

\* generateRsaKeyPair from step 3 on, p and q being what generatePrime gave
KeyPairOf(p, q) ==
  LET e == PublicExponent
      n == BigMul(p, q)
      phi == BigMul(BigSub(p, BigOne), BigSub(q, BigOne))
      d == modInverse(e, phi)
      dP == BigMod(d.value, BigSub(p, BigOne))
      dQ == BigMod(d.value, BigSub(q, BigOne))
      qInv == modInverse(q, p)
  IN  IF d.err # "" THEN NoKey(d.err, p, q)
      ELSE IF Len(BigSub(p, BigOne)) = 0 \/ Len(BigSub(q, BigOne)) = 0
        THEN NoKey("DivisionByZero", p, q)
      ELSE IF qInv.err # "" THEN NoKey(qInv.err, p, q)
      ELSE [err |-> "",
            publicKey |-> toPem(encodePublicKeyDER(n, e), LabelPublicKey),
            privateKey |-> toPem(encodePrivateKeyDER(n, e, d.value, p, q, dP, dQ, qInv.value),
                                 LabelRsaPrivateKey),
            p |-> p, q |-> q, n |-> n, phi |-> phi, e |-> e, d |-> d.value]

\* ------------------------------------------------------------------------
\* Callers of rsaEncrypt and rsaDecrypt.  The key pairs are what
\* generateRsaKeyPair builds from two primes; the moduli are 560, 528 and 48
\* bits long, so that k - 2*hLen - 2 is 4, 0 and negative.

RsaP ==
  <<525, 1756, 3774, 1767, 2705, 293, 2615, 2884, 3786, 2589, 1076, 1220, 1792, 576, 3147,
    972, 2416, 2414, 3060, 3577, 2149, 968, 1686, 12>>

RsaQ ==
  <<2013, 1309, 647, 3870, 38, 3337, 115, 298, 515, 428, 3302, 2377, 1296, 1378, 1693,
    2458, 1300, 2499, 3810, 3875, 2592, 1483, 3624, 10>>

EdgeP ==
  <<2313, 3846, 39, 2640, 3426, 3523, 2108, 1851, 36, 2844, 2439, 1312, 3051, 1472, 3904,
    2130, 3460, 4028, 440, 782, 259, 2330>>

EdgeQ ==
  <<1171, 2506, 3963, 1785, 1312, 2423, 2724, 1311, 1913, 3788, 2284, 3337, 2820, 3034,
    883, 3226, 385, 1290, 2132, 2156, 2046, 3913>>

RsaKeys ==
  [main |-> KeyPairOf(RsaP, RsaQ),
   edge |-> KeyPairOf(EdgeP, EdgeQ),
   short |-> KeyPairOf(BigFromInt(16777213), BigFromInt(16777199))]

RsaKeyNames == {"main", "edge", "short"}

RsaMaxTextLen == 6

SeedZero == Fill(32, 0)
SeedPattern == Pattern(32, 7, 13)
RsaSeeds == {SeedZero, SeedPattern}

\* texts that go through encryption and decryption
RsaRoundTripTexts ==
  { <<>>, <<1>>, <<0, 1, 65, 122>>, <<0, 0, 0, 0>>, <<233, 65>>,
    <<ByteOrderMark, 65>>, <<55296>> }

RsaTexts ==
  RsaRoundTripTexts
    \cup {TextOfLen(n) : n \in 0..RsaMaxTextLen}
    \cup { <<0>>, <<8364>>, <<8364, 65>>, <<8364, 233>>, <<55357, 56832>>,
           <<55357, 56832, 65>>, TextOfLen(70), TextOfLen(71) }

RsaRoundTrips ==
  [op : {"roundtrip"}, key : {"main"}, text : RsaRoundTripTexts, seed : {SeedZero}]
    \cup [op : {"roundtrip"}, key : {"main"}, text : { <<0, 1>> }, seed : {SeedPattern}]
    \cup [op : {"roundtrip"}, key : {"edge"}, text : { <<>> }, seed : {SeedPattern}]

RsaEncrypts == [op : {"encrypt"}, key : RsaKeyNames, text : RsaTexts, seed : RsaSeeds]

RsaRequests == RsaRoundTrips \cup RsaEncrypts

InitRsa ==
  /\ pc = "start"
  /\ req \in RsaRequests
  /\ res = NoResult
  /\ res2 = NoResult

RsaEncryptCall ==
  /\ pc = "start"
  /\ res' = rsaEncrypt(req.text, RsaKeys[req.key].publicKey, req.seed)
  /\ pc' = "encrypted"
  /\ UNCHANGED <<req, res2>>

\* the caller goes on only with a ciphertext in hand
RsaDecryptCall ==
  /\ pc = "encrypted"
  /\ req.op = "roundtrip"
  /\ res.err = ""
  /\ res2' = rsaDecrypt(res.out, RsaKeys[req.key].privateKey)
  /\ pc' = "decrypted"
  /\ UNCHANGED <<req, res>>

NextRsa ==
  \/ RsaEncryptCall
  \/ RsaDecryptCall

SpecRsa == InitRsa /\ [][NextRsa]_vars

\* ------------------------------------------------------------------------
\* generateRsaKeyPair, one step per turn of generatePrime's loop.  The
\* source asks for primes of 1024 bits; the model asks for PrimeBits.
\* req holds the primes generatePrime has returned so far, res the outcome.

PrimeBits == 24

\* the bytes getRandomBigInt draws, given as the number they spell
DrawnBytes(v) == BigToBytes(BigFromInt(v), (PrimeBits + 7) \div 8)

CandidateBytes ==
  { DrawnBytes(v) : v \in { 16777213, 16777212, 16777199, 16777183, 9044107, 8388619, 8388617,
                            8388611, 4194307, 4194301, 2047, 143, 13, 11, 3, 0 } }

\* what Math.random() returns in the five rounds of isPrime, in 256ths
RandomDraws == { <<0, 0, 0, 0, 0>>, <<128, 37, 200, 5, 255>> }

\* the candidate each draw of bytes gives, and what generatePrime does with
\* it under each draw of Math.random()
Candidates == [bytes \in CandidateBytes |-> getRandomBigInt(PrimeBits, bytes)]

Verdicts ==
  [bytes \in CandidateBytes |->
     [draws \in RandomDraws |-> CandidateVerdict(Candidates[bytes], draws)]]

\* the longest run of candidates that is counted
MaxRun == 4

NoPrimes == [p |-> <<>>, q |-> <<>>]

\* res2 holds the candidate of the last turn of the loop and the number of
\* turns since the loop last yielded (MaxRun stands for MaxRun or more)
InitKeyGen ==
  /\ pc = "generateP"
  /\ req = NoPrimes
  /\ res = NoResult
  /\ res2 = [candidate |-> <<>>, sinceYield |-> 0]

\* where generateRsaKeyPair stands after one turn of the loop
AfterIteration(at, verdict, yield, candidate) ==
  IF verdict = "filtered" THEN at
  ELSE IF verdict = "composite"
    THEN (IF ~yield THEN at ELSE IF at = "generateP" THEN "yieldP" ELSE "yieldQ")
  ELSE IF at = "generateP" THEN "generateQ"
  ELSE IF candidate = req.p THEN "generateQ"
  ELSE "primes"

Yielding(verdict, yield) == verdict = "composite" /\ yield

\* one turn of the loop of generatePrime: a candidate is drawn, and is
\* skipped, found composite (and the loop may yield) or returned
GeneratePrimeIteration ==
  /\ pc \in {"generateP", "generateQ"}
  /\ \E bytes \in CandidateBytes, draws \in RandomDraws, yield \in BOOLEAN :
       /\ pc' = AfterIteration(pc, Verdicts[bytes][draws], yield, Candidates[bytes])
       /\ req' = IF Verdicts[bytes][draws] # "prime" THEN req
                 ELSE IF pc = "generateP" THEN [req EXCEPT !.p = Candidates[bytes]]
                 ELSE [req EXCEPT !.q = Candidates[bytes]]
       /\ res2' = [candidate |-> Candidates[bytes],
                   sinceYield |-> IF Yielding(Verdicts[bytes][draws], yield) THEN 0
                                  ELSE Min(res2.sinceYield + 1, MaxRun)]
  /\ UNCHANGED res

\* setTimeout(r, 0) fires and the loop goes on
TimerFires ==
  /\ pc \in {"yieldP", "yieldQ"}
  /\ pc' = IF pc = "yieldP" THEN "generateP" ELSE "generateQ"
  /\ UNCHANGED <<req, res, res2>>

\* the candidates generatePrime can return
PrimesFound ==
  {Candidates[bytes] : bytes \in {b \in CandidateBytes :
     \E draws \in RandomDraws : Verdicts[b][draws] = "prime"}}

\* what steps 3 to 6 of generateRsaKeyPair make of each pair of primes
KeyPairs == [p \in PrimesFound |-> [q \in PrimesFound |-> KeyPairOf(p, q)]]

\* steps 3 to 6 of generateRsaKeyPair
ComputeKey ==
  /\ pc = "primes"
  /\ res' = KeyPairs[req.p][req.q]
  /\ pc' = IF KeyPairs[req.p][req.q].err = "" THEN "done" ELSE "failed"
  /\ UNCHANGED <<req, res2>>

NextKeyGen ==
  \/ GeneratePrimeIteration
  \/ TimerFires
  \/ ComputeKey

SpecKeyGen == InitKeyGen /\ [][NextKeyGen]_vars

\* the loop goes on, a timer that was set fires, and the key is computed
SpecKeyGenFair ==
  /\ SpecKeyGen
  /\ WF_vars(GeneratePrimeIteration)
  /\ WF_vars(TimerFires)
  /\ WF_vars(ComputeKey)

\* ------------------------------------------------------------------------
\* RSA claims

RsaKeyOf(r) == RsaKeys[r.key]

\* the byte length of the modulus
ByteLength(n) == (BigBitLength(n) + 7) \div 8

RsaFits(r) == Len(stringToUtf8Bytes(r.text)) <= ByteLength(RsaKeyOf(r).n) - 2 * HashLen - 2

\* C7: for every key pair, every message M of at most k - 2*hashLen - 2
\* bytes and every seed, rsaDecrypt(rsaEncrypt(M, publicKeyPem),
\* privateKeyPem) returns M, and the padded integer is smaller than n.
C7_RsaRoundTrip ==
  /\ (pc \in {"encrypted", "decrypted"} /\ RsaFits(req)) =>
        /\ res.err = ""
        /\ BigCmp(os2ip(res.padded), RsaKeyOf(req).n) < 0
  /\ pc = "decrypted" => (res2.err = "" /\ res2.out = req.text)

\* What does hold of the round trip: oaepUnpad returns the bytes oaepPad was
\* given, so the text comes back whenever decoding those bytes gives it back.
RsaRoundTripOfBytes ==
  /\ (pc \in {"encrypted", "decrypted"} /\ RsaFits(req)) =>
        /\ res.err = ""
        /\ BigCmp(os2ip(res.padded), RsaKeyOf(req).n) < 0
  /\ pc = "decrypted" =>
        /\ res2.err = ""
        /\ res2.padded = res.padded
        /\ res2.msgBytes = stringToUtf8Bytes(req.text)
        /\ res2.out = utf8BytesToString(stringToUtf8Bytes(req.text))
        /\ (WellFormed(req.text) => res2.out = req.text)

\* C8: rsaEncrypt fails with a message-too-long error and gives no
\* ciphertext for every message of more than k - 2*hashLen - 2 bytes (k the
\* byte length of the modulus, hashLen 32); every other message is accepted
\* whole and padded to exactly k bytes, the first of them 0x00.
C8_MessageTooLong ==
  pc \in {"encrypted", "decrypted"} =>
    LET k == ByteLength(RsaKeyOf(req).n)
        msgBytes == stringToUtf8Bytes(req.text)
    IN  /\ HashLen = 32
        /\ res.k = k
        /\ IF Len(msgBytes) > k - 2 * HashLen - 2
             THEN res.err = "MessageTooLong" /\ res.out = <<>>
             ELSE /\ res.err = ""
                  /\ Len(res.padded) = k
                  /\ res.padded[1] = 0
                  /\ res.msgBytes = msgBytes
                  /\ oaepUnpad(res.padded, k) = [err |-> "", out |-> msgBytes]
                  /\ base64ToArrayBuffer(res.out)
                       = i2osp(modPow(os2ip(res.padded), RsaKeyOf(req).e, RsaKeyOf(req).n), k)

\* a message one byte over the bound is refused under a key that accepts
\* four bytes
C8_Witness ==
  /\ pc = "encrypted"
  /\ req.key = "main"
  /\ Len(stringToUtf8Bytes(req.text)) = ByteLength(RsaKeyOf(req).n) - 2 * HashLen - 2 + 1
  /\ res.err = "MessageTooLong"

\* a message of exactly the bound is accepted
C8_WitnessAccepted ==
  /\ pc = "encrypted"
  /\ req.key = "main"
  /\ Len(stringToUtf8Bytes(req.text)) = ByteLength(RsaKeyOf(req).n) - 2 * HashLen - 2
  /\ res.err = ""
  /\ Len(res.padded) = 70

\* ------------------------------------------------------------------------
\* Key generation claims

\* C9: every key pair generateRsaKeyPair produces has a modulus n = p*q of
\* exactly the target bit length, and p and q of exactly half of it each.
C9_ExactBitLength ==
  pc = "done" =>
    /\ res.n = BigMul(res.p, res.q)
    /\ BigBitLength(res.n) = 2 * PrimeBits
    /\ BigBitLength(res.p) = PrimeBits
    /\ BigBitLength(res.q) = PrimeBits

\* What does hold of the lengths: neither prime is longer than asked.
PrimesNotLonger ==
  pc = "done" =>
    /\ res.n = BigMul(res.p, res.q)
    /\ BigBitLength(res.p) <= PrimeBits
    /\ BigBitLength(res.q) <= PrimeBits
    /\ BigBitLength(res.n) <= 2 * PrimeBits

InverseOk(key) ==
  /\ key.e = BigFromInt(65537)
  /\ key.phi = BigMul(BigSub(key.p, BigOne), BigSub(key.q, BigOne))
  /\ BigCmp(key.d, key.phi) < 0
  /\ BigMod(BigMul(key.d, key.e), key.phi) = BigOne

\* C10: key generation has no failure outcome: for every pair of primes the
\* search returns, q is drawn again until p # q and generateRsaKeyPair then
\* completes, with e = 65537 and d in [0, phi) such that (d * e) mod phi = 1.
C10_NoFailure ==
  /\ pc # "failed"
  /\ pc \in {"primes", "done"} => req.p # req.q
  /\ pc = "done" => InverseOk(res)

\* What does hold: a run that completes returns the inverse, and a run
\* fails only by the division by zero of modInverse, when e divides phi.
FailsOnlyWithoutInverse ==
  /\ pc \in {"primes", "done", "failed"} => req.p # req.q
  /\ pc = "done" => InverseOk(res)
  /\ pc = "failed" =>
        /\ res.err = "DivisionByZero"
        /\ Len(BigMod(res.phi, PublicExponent)) = 0

\* ------------------------------------------------------------------------
\* Keys through DER and PEM: the integers of a key are encoded, wrapped
\* into a PEM text and parsed back.

\* limbs of the largest integer: 170 limbs of 12 bits are 255 bytes
MaxLimbs == 170

\* integers with the bytes of their magnitude, most significant first
DerCases ==
  << [big |-> <<>>, bytes |-> <<0>>],
     [big |-> <<1>>, bytes |-> <<1>>],
     [big |-> <<127>>, bytes |-> <<127>>],
     [big |-> <<128>>, bytes |-> <<128>>],
     [big |-> <<255>>, bytes |-> <<255>>],
     [big |-> <<256>>, bytes |-> <<1, 0>>],
     [big |-> <<4095>>, bytes |-> <<15, 255>>],
     [big |-> <<0, 8>>, bytes |-> <<128, 0>>],
     [big |-> <<1, 16>>, bytes |-> <<1, 0, 1>>],
     [big |-> Fill(83, 0) \o <<2048>>, bytes |-> <<128>> \o Fill(125, 0)],
     [big |-> Fill(84, 4095), bytes |-> Fill(126, 255)],
     [big |-> Fill(84, 0) \o <<128>>, bytes |-> <<128>> \o Fill(126, 0)],
     [big |-> Fill(85, 0) \o <<1>>, bytes |-> <<16>> \o Fill(127, 0)],
     [big |-> Fill(MaxLimbs, 4095),
      bytes |-> (IF MaxLimbs % 2 = 1 THEN <<15>> ELSE <<>>) \o Fill((3 * MaxLimbs) \div 2, 255)] >>

DerBigs == {DerCases[i].big : i \in 1..Len(DerCases)}

DerCase(k) == DerCases[(k % Len(DerCases)) + 1].big

PublicKeyRequests == [op : {"public"}, n : DerBigs, e : DerBigs]

\* the eight integers of a private key, taken from the cases at a stride
PrivateKeyRequests ==
  { [op |-> "private", n |-> DerCase(s), e |-> DerCase(s + t), d |-> DerCase(s + 2 * t),
     p |-> DerCase(s + 3 * t), q |-> DerCase(s + 4 * t), dP |-> DerCase(s + 5 * t),
     dQ |-> DerCase(s + 6 * t), qInv |-> DerCase(s + 7 * t)] :
      s \in 0..(Len(DerCases) - 1), t \in {0, 1, 3, 6} }

InitDer ==
  /\ pc = "start"
  /\ req \in PublicKeyRequests \cup PrivateKeyRequests
  /\ res = NoResult
  /\ res2 = NoResult

Encoded(der, label) == [der |-> der, pem |-> toPem(der, label)]

EncodePublicKeyCall ==
  /\ pc = "start"
  /\ req.op = "public"
  /\ res' = Encoded(encodePublicKeyDER(req.n, req.e), LabelPublicKey)
  /\ pc' = "encoded"
  /\ UNCHANGED <<req, res2>>

ParsePublicKeyCall ==
  /\ pc = "encoded"
  /\ req.op = "public"
  /\ res2' = parsePublicKeyPEM(res.pem)
  /\ pc' = "parsed"
  /\ UNCHANGED <<req, res>>

EncodePrivateKeyCall ==
  /\ pc = "start"
  /\ req.op = "private"
  /\ res' = Encoded(encodePrivateKeyDER(req.n, req.e, req.d, req.p, req.q, req.dP, req.dQ,
                                        req.qInv), LabelRsaPrivateKey)
  /\ pc' = "encoded"
  /\ UNCHANGED <<req, res2>>

ParsePrivateKeyCall ==
  /\ pc = "encoded"
  /\ req.op = "private"
  /\ res2' = parsePrivateKeyPEM(res.pem)
  /\ pc' = "parsed"
  /\ UNCHANGED <<req, res>>

NextDer ==
  \/ EncodePublicKeyCall
  \/ ParsePublicKeyCall
  \/ EncodePrivateKeyCall
  \/ ParsePrivateKeyCall

SpecDer == InitDer /\ [][NextDer]_vars

\* the bytes of the magnitude of a case
MagnitudeOf(big) == (CHOOSE i \in 1..Len(DerCases) : DerCases[i].big = big)

\* a length below 128 in one byte, any other as 0x80 + the count of its
\* bytes, then its bytes
ExpectedLength(len) ==
  IF len < 128 THEN <<len>>
  ELSE IF len < 256 THEN <<129, len>>
  ELSE <<130, len \div 256, len % 256>>

\* 0x00 before the magnitude exactly when its first byte has the high bit
ExpectedContent(bytes) == IF bytes[1] >= 128 THEN <<0>> \o bytes ELSE bytes

ExpectedTlv(tag, content) == <<tag>> \o ExpectedLength(Len(content)) \o content

ExpectedInt(big) == ExpectedTlv(2, ExpectedContent(DerCases[MagnitudeOf(big)].bytes))

ExpectedPrivateBody ==
  ExpectedInt(<<>>) \o ExpectedInt(req.n) \o ExpectedInt(req.e) \o ExpectedInt(req.d)
    \o ExpectedInt(req.p) \o ExpectedInt(req.q) \o ExpectedInt(req.dP) \o ExpectedInt(req.dQ)
    \o ExpectedInt(req.qInv)

\* C11: for every key of non-negative integers, parsePublicKeyPEM of the PEM
\* of encodePublicKeyDER(n, e) returns the same (n, e) and parsePrivateKeyPEM
\* of the PEM of encodePrivateKeyDER(n, e, d, p, q, dP, dQ, qInv) returns the
\* same (n, d); every INTEGER is the minimal big-endian bytes of the value
\* with 0x00 before them exactly when the first byte has its high bit set,
\* and every length is in short form below 128 and in long form otherwise.
C11_DerRoundTrip ==
  /\ (req.op = "public" /\ pc \in {"encoded", "parsed"})
       => res.der = ExpectedTlv(48, ExpectedInt(req.n) \o ExpectedInt(req.e))
  /\ (req.op = "public" /\ pc = "parsed")
       => res2.err = "" /\ res2.n = req.n /\ res2.e = req.e
  /\ (req.op = "private" /\ pc \in {"encoded", "parsed"})
       => res.der = ExpectedTlv(48, ExpectedPrivateBody)
  /\ (req.op = "private" /\ pc = "parsed")
       => res2.err = "" /\ res2.n = req.n /\ res2.d = req.d

C11_Witness ==
  /\ req.op = "private" /\ pc = "parsed"
  /\ req.n = Fill(MaxLimbs, 4095)
  /\ req.d = Fill(84, 0) \o <<128>>
  /\ Len(res.der) > 256
  /\ res2.err = "" /\ res2.n = req.n /\ res2.d = req.d

Searching == pc \in {"generateP", "generateQ"}

\* C20: in every execution of generatePrime that keeps rejecting
\* candidates a suspension point is reached again and again: the search is
\* never for ever in the loop without yielding.
C20_YieldsAgainAndAgain == []<>(~Searching)

\* C20, the run between two suspension points: it is never MaxRun
\* candidates long
C20_RunIsBounded == res2.sinceYield < MaxRun

\* ------------------------------------------------------------------------
\* The shape of the Hill cipher's output

HillOutputs ==
  { r \in {res, res2} : r # NoResult /\ r.err = "" }

OnlyCapitals(text) == \A i \in 1..Len(text) : IsCapital(text[i])

\* C29: under an invertible key matrix, what hillEncrypt and hillDecrypt
\* return holds only the letters A-Z and has a length that is a multiple of
\* 3, also when the ciphertext given to hillDecrypt has a number of letters
\* that is not a multiple of 3.
C29_HillOutputShape ==
  (req.op \in {"hill", "hillDecrypt"} /\ Invertible(RequestMatrix))
  => \A r \in HillOutputs : OnlyCapitals(r.out) /\ Len(r.out) % 3 = 0

\* the length alone, and the letters when the cleaned input fills its blocks
C29_HillOutputLength ==
  (req.op \in {"hill", "hillDecrypt"} /\ Invertible(RequestMatrix))
  => \A r \in HillOutputs :
       /\ Len(r.out) % 3 = 0
       /\ (req.op = "hill" \/ Len(cleanText(req.text)) % 3 = 0) => OnlyCapitals(r.out)

\* ------------------------------------------------------------------------
\* The HMAC file: SHA-256 and HMAC-SHA256.  The padding, the message
\* schedule, temp1 and temp2 have the statements of the RSA file's.

\* hh = g; g = f; f = e; e = (d + temp1) >>> 0; d = c; c = b; b = a;
\* a = (temp1 + temp2) >>> 0, on <<a, b, c, d, e, f, g, hh>>
HmacSha256Assignments(v, temp1, temp2) ==
  <<WordSum(<<temp1, temp2>>), v[1], v[2], v[3], WordSum(<<v[4], temp1>>), v[5], v[6], v[7]>>

HmacSha256Round(v, kj, wj) == HmacSha256Assignments(v, Sha256Temp1(v, kj, wj), Sha256Temp2(v))

RECURSIVE HmacSha256RoundLoop(_, _, _, _)
HmacSha256RoundSecondHalf(v, lo, hi, w) ==
  IF Len(v) = 8 THEN HmacSha256RoundLoop(v, lo, hi, w) ELSE v

\* the round loop for j = lo .. hi (the range is halved)
HmacSha256RoundLoop(v, lo, hi, w) ==
  IF lo > hi THEN v
  ELSE IF lo = hi THEN HmacSha256Round(v, Sha256K[lo + 1], w[lo + 1])
  ELSE HmacSha256RoundSecondHalf(HmacSha256RoundLoop(v, lo, (lo + hi) \div 2, w),
                                 ((lo + hi) \div 2) + 1, hi, w)

\* h[x] = (h[x] + a..hh) >>> 0 after the rounds of one block
HmacSha256Rounds(hs, w) ==
  IF Len(w) = 64 THEN Sha256AddState(hs, HmacSha256RoundLoop(hs, 0, 63, w)) ELSE hs

RECURSIVE HmacSha256BlockLoop(_, _, _)
HmacSha256BlockNext(hs, padded, i) ==
  IF Len(hs) = 8 THEN HmacSha256BlockLoop(hs, padded, i) ELSE hs

\* the loop over the blocks, from byte i on
HmacSha256BlockLoop(hs, padded, i) ==
  IF i >= Len(padded) THEN hs
  ELSE HmacSha256BlockNext(HmacSha256Rounds(hs, Sha256Schedule(padded, i)), padded, i + 64)

\* sha256 of the HMAC file
hmacSha256(data) == Sha256Result(HmacSha256BlockLoop(Sha256H, Sha256Padded(data), 0))

HmacBlockSize == 64

\* the key of blockSize bytes: hashed when longer, padded with zeros
HmacKeyBlock(keyBytes) ==
  IF Len(keyBytes) > HmacBlockSize THEN hmacSha256(keyBytes) \o Fill(HmacBlockSize - 32, 0)
  ELSE keyBytes \o Fill(HmacBlockSize - Len(keyBytes), 0)

HmacPad(keyBlock, byte) == [i \in 1..HmacBlockSize |-> Xor(keyBlock[i], byte)] \o <<>>

HmacOuter(keyBlock, innerHash) == hmacSha256(HmacPad(keyBlock, 92) \o innerHash)

HmacOfBlock(keyBlock, msgBytes) ==
  HmacOuter(keyBlock, hmacSha256(HmacPad(keyBlock, 54) \o msgBytes))

\* b.toString(16).padStart(2, "0") of every byte, as character codes
HexDigitCode(d) == IF d < 10 THEN 48 + d ELSE 87 + d

toHex(buffer) ==
  [i \in 1..(2 * Len(buffer)) |->
     HexDigitCode(IF i % 2 = 1 THEN buffer[(i + 1) \div 2] \div 16
                  ELSE buffer[i \div 2] % 16)] \o <<>>

hmacSign(message, key) ==
  [err |-> "",
   out |-> toHex(HmacOfBlock(HmacKeyBlock(stringToUtf8Bytes(key)), stringToUtf8Bytes(message)))]

\* ------------------------------------------------------------------------
\* The two SHA-256 of the suite on the same data

\* lengths around the padding's borders: one block, two blocks
DigestLens == {0, 1, 3, 55, 56, 63, 64, 65, 119, 120}

DigestData == {Pattern(n, a, 96) : n \in DigestLens, a \in {0, 1, 7}}

AbcBytes == <<97, 98, 99>>

\* SHA-256 of "abc" in FIPS 180-4
AbcDigest ==
  <<186, 120, 22, 191, 143, 1, 207, 234, 65, 65, 64, 222, 93, 174, 34, 35,
    176, 3, 97, 163, 150, 23, 122, 156, 180, 16, 255, 97, 242, 0, 21, 173>>

DigestRequests == [op : {"digest"}, data : DigestData \cup {AbcBytes}, len : {32}]

MaskRequests == [op : {"mgf1"}, data : {<<>>, AbcBytes, Pattern(32, 7, 96)}, len : {1, 32, 33}]

SignRequests ==
  [op : {"hmac"}, data : {AbcBytes, TextOfLen(17), <<233, 8364>>},
   len : {0, 3, HmacBlockSize, HmacBlockSize + 1}]

ShaRequests == DigestRequests \cup MaskRequests \cup SignRequests

InitSha ==
  /\ pc = "start"
  /\ req \in ShaRequests
  /\ res = NoResult
  /\ res2 = NoResult

\* sha256 of the RSA file: new Sha256().process(data)
Sha256ProcessCall ==
  /\ pc = "start"
  /\ req.op = "digest"
  /\ res' = [err |-> "", out |-> sha256(req.data)]
  /\ pc' = "rsaHashed"
  /\ UNCHANGED <<req, res2>>

\* sha256 of the HMAC file on the same data
HmacSha256Call ==
  /\ pc = "rsaHashed"
  /\ res2' = [err |-> "", out |-> hmacSha256(req.data)]
  /\ pc' = "bothHashed"
  /\ UNCHANGED <<req, res>>

Mgf1Call ==
  /\ pc = "start"
  /\ req.op = "mgf1"
  /\ res' = [err |-> "", out |-> mgf1(req.data, req.len)]
  /\ pc' = "masked"
  /\ UNCHANGED <<req, res2>>

\* hmacSign of the text under a key of req.len characters
HmacSignCall ==
  /\ pc = "start"
  /\ req.op = "hmac"
  /\ res' = hmacSign(req.data, TextOfLen(req.len))
  /\ pc' = "signed"
  /\ UNCHANGED <<req, res2>>

NextSha ==
  \/ Sha256ProcessCall
  \/ HmacSha256Call
  \/ Mgf1Call
  \/ HmacSignCall

SpecSha == InitSha /\ [][NextSha]_vars

\* C23: the SHA-256 inside RSA-OAEP and MGF1 and the SHA-256 of HMAC give
\* the same digest for every input, each of the 64 rounds taking the
\* registers (a,b,c,d,e,f,g,h) to (T1+T2, a, b, c, d+T1, e, f, g) modulo
\* 2^32 from a fresh register state per digest.
C23_SameDigest ==
  /\ pc = "bothHashed" => res.out = res2.out
  /\ (pc = "bothHashed" /\ req.data = AbcBytes) => res.out = AbcDigest
  /\ pc = "bothHashed" =>
       Sha256Round(Sha256H, Sha256K[1], Sha256Schedule(Sha256Padded(req.data), 0)[1])
         = HmacSha256Round(Sha256H, Sha256K[1], Sha256Schedule(Sha256Padded(req.data), 0)[1])

\* what does hold: the HMAC file's digest is the standard one, each digest
\* starts from the initial hash value, and MGF1 is built from the RSA file's
C23_HmacDigestIsStandard ==
  /\ (pc = "bothHashed" /\ req.data = AbcBytes) => res2.out = AbcDigest
  /\ pc = "bothHashed" =>
       /\ Len(res.out) = 32 /\ Len(res2.out) = 32
       /\ res.out = Sha256Result(Sha256BlockLoop(Sha256H, Sha256Padded(req.data), 0))
  /\ (pc = "masked" /\ req.len <= 32) =>
       res.out = SubSeq(sha256(req.data \o <<0, 0, 0, 0>>), 1, req.len)

\* ------------------------------------------------------------------------
\* The list of algorithms the application offers and the dispatcher,
\* executeCrypto.  inputs maps the names of the inputs that are set to their
\* strings; an input that is not set is undefined.

ALGORITHMS ==
  << [id |-> "monoalphabetic", category |-> "symmetric", requiredInputs |-> <<"key">>],
     [id |-> "hill", category |-> "symmetric", requiredInputs |-> <<"key">>],
     [id |-> "columnar", category |-> "symmetric", requiredInputs |-> <<"key">>],
     [id |-> "rc4", category |-> "symmetric", requiredInputs |-> <<"key">>],
     [id |-> "aes-cbc", category |-> "symmetric", requiredInputs |-> <<"key", "iv">>],
     [id |-> "aes-ofb", category |-> "symmetric", requiredInputs |-> <<"key", "iv">>],
     [id |-> "aes-ctr", category |-> "symmetric", requiredInputs |-> <<"key", "iv">>],
     [id |-> "rsa", category |-> "asymmetric", requiredInputs |-> <<"publicKey", "privateKey">>],
     [id |-> "hmac", category |-> "symmetric", requiredInputs |-> <<"key">>],
     [id |-> "sha1", category |-> "keyless", requiredInputs |-> <<>>] >>

AlgorithmIds == { ALGORITHMS[i].id : i \in 1..Len(ALGORITHMS) }

\* !inputs.x || typeof inputs.x !== 'string' is false
Given(inputs, name) == name \in DOMAIN inputs /\ inputs[name] # <<>>

InputOf(inputs, name) == IF name \in DOMAIN inputs THEN inputs[name] ELSE <<>>

Failed(e) == [err |-> e, out |-> <<>>]

Returned(out) == [err |-> "", out |-> out]

\* what a library call that returns a record gave: its text or its error
FromLibrary(r) == [err |-> r.err, out |-> r.out]

\* the text the hmac case returns in the decrypt direction
HmacDecryptNotice ==
  <<
    72, 77, 65, 67, 32, 105, 115, 32, 97, 32, 111, 110, 101, 45, 119, 97, 121, 32, 115, 105,
    103, 110, 97, 116, 117, 114, 101, 32, 97, 108, 103, 111, 114, 105, 116, 104, 109, 46, 32, 39,
    68, 101, 99, 114, 121, 112, 116, 105, 111, 110, 39, 32, 105, 115, 32, 110, 111, 116, 32, 97,
    112, 112, 108, 105, 99, 97, 98, 108, 101, 46, 32, 82, 117, 110, 32, 105, 110, 32, 39, 69,
    110, 99, 114, 121, 112, 116, 39, 32, 109, 111, 100, 101, 32, 116, 111, 32, 103, 101, 110, 101,
    114, 97, 116, 101, 32, 97, 32, 110, 101, 119, 32, 115, 105, 103, 110, 97, 116, 117, 114, 101,
    46 >>

\* /^[a-zA-Z]{9}$/.test(key)
IsNineLetters(key) ==
  Len(key) = 9 /\ \A i \in 1..9 : IsCapital(key[i]) \/ (key[i] >= 97 /\ key[i] <= 122)

\* algorithmId.split('-')[1].toUpperCase()
AesModeName(algorithmId) ==
  CASE algorithmId = "aes-cbc" -> "CBC"
    [] algorithmId = "aes-ofb" -> "OFB"
    [] algorithmId = "aes-ctr" -> "CTR"

ExecuteMonoalphabetic(mode, text, inputs) ==
  IF ~Given(inputs, "key") THEN Failed("KeyRequired")
  ELSE IF mode = "encrypt" THEN Returned(monoalphabeticEncrypt(text, inputs.key))
  ELSE Returned(monoalphabeticDecrypt(text, inputs.key))

ExecuteHill(mode, text, inputs) ==
  IF ~Given(inputs, "key") THEN Failed("KeyRequired")
  ELSE IF ~IsNineLetters(inputs.key) THEN Failed("HillKeyFormat")
  ELSE IF mode = "encrypt" THEN hillEncrypt(text, keyToMatrix(toUpperCase(inputs.key)))
  ELSE hillDecrypt(text, keyToMatrix(toUpperCase(inputs.key)))

ExecuteColumnar(mode, text, inputs) ==
  IF ~Given(inputs, "key") THEN Failed("KeyRequired")
  ELSE IF mode = "encrypt" THEN columnarEncrypt(text, inputs.key)
  ELSE columnarDecrypt(text, inputs.key)

ExecuteRc4(mode, text, inputs) ==
  IF ~Given(inputs, "key") THEN Failed("KeyRequired")
  ELSE FromLibrary(rc4Crypt(text, inputs.key, mode))

\* inputs.key.length, inputs.iv.length: UTF-16 code units
DispatchLength(str) == Len(str)

ExecuteAes(algorithmId, mode, text, inputs) ==
  IF ~Given(inputs, "key") THEN Failed("KeyRequired")
  ELSE IF DispatchLength(inputs.key) \notin {16, 24, 32} THEN Failed("AesKeyLength")
  ELSE IF ~Given(inputs, "iv") THEN Failed("IvRequired")
  ELSE IF DispatchLength(inputs.iv) # 16 THEN Failed("AesIvLength")
  ELSE IF mode = "encrypt"
    THEN FromLibrary(aesEncrypt(text, inputs.key, inputs.iv, AesModeName(algorithmId)))
  ELSE FromLibrary(aesDecrypt(text, inputs.key, inputs.iv, AesModeName(algorithmId)))

\* seed is what oaepPad draws inside rsaEncrypt
ExecuteRsa(mode, text, inputs, seed) ==
  IF mode = "encrypt"
    THEN (IF ~Given(inputs, "publicKey") THEN Failed("PublicKeyRequired")
          ELSE FromLibrary(rsaEncrypt(text, inputs.publicKey, seed)))
  ELSE (IF ~Given(inputs, "privateKey") THEN Failed("PrivateKeyRequired")
        ELSE FromLibrary(rsaDecrypt(text, inputs.privateKey)))

ExecuteHmac(mode, text, inputs) ==
  IF ~Given(inputs, "key") THEN Failed("KeyRequired")
  ELSE IF mode = "decrypt" THEN Returned(HmacDecryptNotice)
  ELSE hmacSign(text, inputs.key)

NotImplemented == Failed("NotImplemented")

\* the cases of the switch that are not classical ciphers
ExecuteModern(algorithmId, mode, text, inputs, seed) ==
  IF algorithmId = "rc4" THEN ExecuteRc4(mode, text, inputs)
  ELSE IF algorithmId \in {"aes-cbc", "aes-ofb", "aes-ctr"}
    THEN ExecuteAes(algorithmId, mode, text, inputs)
  ELSE IF algorithmId = "rsa" THEN ExecuteRsa(mode, text, inputs, seed)
  ELSE IF algorithmId = "hmac" THEN ExecuteHmac(mode, text, inputs)
  ELSE NotImplemented

executeCrypto(algorithmId, mode, text, inputs, seed) ==
  IF text = <<>> THEN Failed("EmptyText")
  ELSE IF algorithmId = "monoalphabetic" THEN ExecuteMonoalphabetic(mode, text, inputs)
  ELSE IF algorithmId = "hill" THEN ExecuteHill(mode, text, inputs)
  ELSE IF algorithmId = "columnar" THEN ExecuteColumnar(mode, text, inputs)
  ELSE ExecuteModern(algorithmId, mode, text, inputs, seed)

\* ------------------------------------------------------------------------
\* Requests to executeCrypto: every listed algorithm in both directions, with
\* inputs that are valid, malformed and missing, and an identifier that is
\* not listed

NoInputs == [name \in {} |-> <<>>]

KeyOnly(keys) == {[key |-> k] : k \in keys} \cup {NoInputs}

GybnqkurpLower == <<103, 121, 98, 110, 113, 107, 117, 114, 112>>

HillDispatchKeys ==
  { <<71, 89, 66, 78, 81, 75, 85, 82, 80>>, GybnqkurpLower, <<67, 65, 65, 65, 67, 65, 65, 65, 67>>,
    <<65, 66, 67>>, <<71, 89, 66, 78, 81, 75, 85, 82, 49>>, <<>> }

AesDispatchKeys ==
  { FipsKey, FipsKey192, FipsKey256, KeyAccented, Pattern(15, 1, 64),
    Pattern(15, 1, 64) \o <<233>>, <<>> }

IvWithAccent == Pattern(15, 1, 47) \o <<233>>

AesDispatchInputs ==
  {[key |-> k, iv |-> v] : k \in AesDispatchKeys,
                           v \in {IvText, IvAccented, IvWithAccent, Pattern(15, 1, 47)}}
    \cup {[key |-> FipsKey], [iv |-> IvText]}

RsaDispatchInputs ==
  { [publicKey |-> RsaKeys.main.publicKey, privateKey |-> RsaKeys.main.privateKey],
    [publicKey |-> RsaKeys.main.publicKey],
    [privateKey |-> RsaKeys.main.privateKey],
    [publicKey |-> HelloText, privateKey |-> HelloText],
    NoInputs }

DispatchModes == {"encrypt", "decrypt"}

DispatchRequests ==
  [algorithmId : {"monoalphabetic"}, mode : DispatchModes, text : {<<>>, HelloText},
   inputs : KeyOnly({ZebraKey, <<>>}), seed : {SeedZero}]
  \cup
  [algorithmId : {"hill"}, mode : DispatchModes, text : {ActText, <<65, 66>>},
   inputs : KeyOnly(HillDispatchKeys), seed : {SeedZero}]
  \cup
  [algorithmId : {"columnar"}, mode : DispatchModes,
   text : {<<>>, <<65>>, HelloText, CipherOfLen(6)},
   inputs : KeyOnly({ZebraKey, KeyWithoutLetters, <<75, 69, 89>>}), seed : {SeedZero}]
  \cup
  [algorithmId : {"rc4"}, mode : DispatchModes, text : {HelloText, <<81, 85, 74, 68>>, NotBase64},
   inputs : KeyOnly({ZebraKey}), seed : {SeedZero}]
  \cup
  [algorithmId : {"aes-cbc", "aes-ofb", "aes-ctr"}, mode : DispatchModes,
   text : {TextOfLen(17)}, inputs : AesDispatchInputs, seed : {SeedZero}]
  \cup
  [algorithmId : {"rsa"}, mode : DispatchModes, text : {<<72, 105>>, NotBase64},
   inputs : RsaDispatchInputs, seed : {SeedZero, SeedPattern}]
  \cup
  [algorithmId : {"hmac"}, mode : DispatchModes, text : {<<>>, HelloText},
   inputs : KeyOnly({ZebraKey}), seed : {SeedZero}]
  \cup
  [algorithmId : {"sha1", "md5"}, mode : DispatchModes, text : {<<>>, AbcBytes},
   inputs : {NoInputs, [key |-> ZebraKey]}, seed : {SeedZero}]

InitDispatch ==
  /\ pc = "start"
  /\ req \in DispatchRequests
  /\ res = NoResult
  /\ res2 = NoResult

\* where the caller stands after the call: the promise settled, or the call
\* never came back
AfterCall(r) == IF r = NeverReturns THEN "pending" ELSE "settled"

ExecuteCryptoCall ==
  /\ pc = "start"
  /\ res' = executeCrypto(req.algorithmId, req.mode, req.text, req.inputs, req.seed)
  /\ pc' = AfterCall(res')
  /\ UNCHANGED <<req, res2>>

\* the output of an encryption brought back in the decrypt direction, under
\* the same inputs
ExecuteCryptoBack ==
  /\ pc = "settled"
  /\ req.mode = "encrypt"
  /\ res.err = ""
  /\ res2' = executeCrypto(req.algorithmId, "decrypt", res.out, req.inputs, req.seed)
  /\ pc' = "settledBack"
  /\ UNCHANGED <<req, res>>

NextDispatch ==
  \/ ExecuteCryptoCall
  \/ ExecuteCryptoBack

SpecDispatch == InitDispatch /\ [][NextDispatch]_vars

\* ------------------------------------------------------------------------
\* Claims about the dispatcher

IsHexDigest(text, n) ==
  Len(text) = n /\ \A i \in 1..Len(text) :
                     (text[i] >= 48 /\ text[i] <= 57) \/ (text[i] >= 97 /\ text[i] <= 102)

Called == pc \in {"settled", "pending", "settledBack"}

\* C21: every algorithm of the ALGORITHMS list is routed by executeCrypto
\* to its implementation: with a non-empty text no listed id ends in the
\* not-implemented error, and SHA-1 hashing returns a hex digest.
C21_ListedAlgorithmsRouted ==
  (Called /\ req.algorithmId \in AlgorithmIds /\ req.text # <<>>)
  => /\ res.err # "NotImplemented"
     /\ req.algorithmId = "sha1" => res.err = "" /\ IsHexDigest(res.out, 40)

\* the listed algorithms but sha1 are routed, and an id outside the list is not
C21_ListedButSha1Routed ==
  (Called /\ req.text # <<>>)
  => (res.err = "NotImplemented" <=> req.algorithmId \in {"sha1", "md5"})

UndefinedOperation ==
  req.algorithmId \notin AlgorithmIds \/ (req.algorithmId = "hmac" /\ req.mode = "decrypt")

\* C22: a request that names an operation the suite does not define, an
\* unknown algorithm identifier or the decrypt direction of HMAC, fails with
\* an error; executeCrypto never returns a string for it.
C22_UndefinedOperationsFail ==
  (Called /\ UndefinedOperation) => res.err # "" /\ res.out = <<>>

\* an identifier without a case fails; HMAC decrypt with a text and a key returns
C22_UnknownIdentifierFails ==
  /\ (Called /\ req.algorithmId \notin (AlgorithmIds \ {"sha1"}))
       => res.err \in {"EmptyText", "NotImplemented"} /\ res.out = <<>>
  /\ (Called /\ req.algorithmId = "hmac" /\ req.mode = "decrypt" /\ req.text # <<>>
        /\ Given(req.inputs, "key"))
       => res = Returned(HmacDecryptNotice)

ColumnarLetThrough ==
  req.algorithmId = "columnar" /\ req.text # <<>> /\ Given(req.inputs, "key")

\* C28: columnarEncrypt and columnarDecrypt terminate, with a result or an
\* error, for every text and every key executeCrypto lets through (any
\* non-empty string), also for a key without a letter A-Z, whose column
\* count is 0.
C28_ColumnarTerminates ==
  ColumnarLetThrough => pc # "pending"

\* termination with a key that has a letter, and in the decrypt direction
C28_TerminatesWithColumns ==
  (Called /\ ColumnarLetThrough
     /\ (req.mode = "decrypt" \/ cleanKey(req.inputs.key) # <<>>))
  => pc # "pending" /\ res # NeverReturns

AesLetThrough ==
  /\ req.algorithmId \in {"aes-cbc", "aes-ofb", "aes-ctr"}
  /\ req.text # <<>>
  /\ Given(req.inputs, "key") /\ Len(req.inputs.key) \in {16, 24, 32}
  /\ Given(req.inputs, "iv") /\ Len(req.inputs.iv) = 16

LengthErrors == {"InvalidKeyLength", "InvalidIVLength"}

\* C30: a key and an IV that pass the checks of executeCrypto (a key of 16,
\* 24 or 32 characters, an IV of 16 characters) are accepted by
\* validateKeyAndIV inside aesEncrypt and aesDecrypt: the request never
\* fails later with an invalid key or IV length.
C30_AesValidationAgrees ==
  (Called /\ AesLetThrough)
  => /\ validateKeyAndIV(stringToUtf8Bytes(req.inputs.key), stringToUtf8Bytes(req.inputs.iv)) = ""
     /\ res.err \notin LengthErrors

IsAscii(str) == \A i \in 1..Len(str) : str[i] < 128

\* the two validations agree on strings of code units below 128
C30_AgreesOnAscii ==
  (Called /\ AesLetThrough /\ IsAscii(req.inputs.key) /\ IsAscii(req.inputs.iv))
  => res.err \notin LengthErrors

\* the dispatcher turns away what the library accepts, too
C30_EightAccentsTurnedAway ==
  (Called /\ req.algorithmId = "aes-ctr" /\ InputOf(req.inputs, "key") = KeyAccented)
  => res.err = "AesKeyLength"

\* ------------------------------------------------------------------------
\* CTR and OFB on the same key, IV and data, past the first block

\* "0123456789:;<=q?": under the key 00 01 .. 0f the first byte of
\* Encrypt(IV + 1) is the first byte of Encrypt(Encrypt(IV))
IvMeeting == Pattern(14, 1, 47) \o <<113, 63>>

MaxModeLen == 48

ModeTextLens == {16, 17, 18, 31, 32, 33, MaxModeLen}

ModeRequests ==
  [op : {"compare"}, key : {FipsKey, FipsKey256, KeyAccented},
   iv : {IvText, IvMeeting, IvAccented}, mode : {"CTR"},
   text : {TextOfLen(n) : n \in ModeTextLens}, mask : {ZeroMask}, keep : {-1}]

InitModes ==
  /\ pc = "start"
  /\ req \in ModeRequests
  /\ res = NoResult
  /\ res2 = NoResult

NextModes ==
  \/ AesEncryptCall
  \/ AesEncryptOFBCall

SpecModes == InitModes /\ [][NextModes]_vars

RequestSchedule == keyExpansion(stringToUtf8Bytes(req.key))

RECURSIVE CounterPlus(_, _)
\* the counter block after b increments
CounterPlus(iv, b) == IF b = 0 THEN iv ELSE IncrementCounter(CounterPlus(iv, b - 1))

RECURSIVE EncryptTimes(_, _, _)
\* Encrypt applied b times
EncryptTimes(block, w, b) ==
  IF b = 0 THEN block ELSE aesBlockEncrypt(EncryptTimes(block, w, b - 1), w)

\* keystream block b (0-based) of the two modes
CtrKeystream(iv, w, b) == aesBlockEncrypt(CounterPlus(iv, b), w)
OfbKeystream(iv, w, b) == EncryptTimes(iv, w, b + 1)

Compared == pc = "compared" /\ Len(stringToUtf8Bytes(req.text)) > 16

PastFirstBlock(bytes) == SubSeq(bytes, 17, Len(bytes))

\* C24: for every key, IV and data longer than 16 bytes the CTR and the OFB
\* ciphertexts differ somewhere in bytes 17 and later.
C24_CtrOfbDiverge ==
  Compared => PastFirstBlock(base64ToBytes(res.out)) # PastFirstBlock(base64ToBytes(res2.out))

\* C24, amended: past the first block byte j of the CTR output is the data
\* XOR Encrypt(IV + b) and byte j of the OFB output the data XOR the b + 1
\* times encrypted IV (b the block of j); the second keystream blocks
\* differ unless Encrypt(IV) = IV + 1, and so do bytes 17..32 of the two
\* outputs when the data fills the second block.
C24_DivergeWithKeystreams ==
  Compared =>
    LET ctr == base64ToBytes(res.out)
        ofb == base64ToBytes(res2.out)
        data == stringToUtf8Bytes(req.text)
        iv == stringToUtf8Bytes(req.iv)
    IN  /\ res.err = "" /\ res2.err = ""
        /\ Len(ctr) = Len(data) /\ Len(ofb) = Len(data)
        /\ \A j \in 17..Len(data) :
             /\ ctr[j] = Xor(data[j], CtrKeystream(iv, RequestSchedule, (j - 1) \div 16)[((j - 1) % 16) + 1])
             /\ ofb[j] = Xor(data[j], OfbKeystream(iv, RequestSchedule, (j - 1) \div 16)[((j - 1) % 16) + 1])
        /\ aesBlockEncrypt(iv, RequestSchedule) # IncrementCounter(iv)
             => /\ CtrKeystream(iv, RequestSchedule, 1) # OfbKeystream(iv, RequestSchedule, 1)
                /\ Len(data) >= 32 => SubSeq(ctr, 17, 32) # SubSeq(ofb, 17, 32)

\* 17 bytes of data whose two ciphertexts are the same
C24_Witness ==
  /\ Compared /\ req.iv = IvMeeting /\ req.key = FipsKey /\ Len(req.text) = 17
  /\ res.err = "" /\ res.out = res2.out

\* ------------------------------------------------------------------------
\* Encoded blocks brought to oaepUnpad and, as ciphertexts, to rsaDecrypt.
\* A request names how the data block was built before masking (kind), the
\* message in it, the seed, the leading byte of the block and its length k.

LabelHash == sha256(<<>>)

Max(a, b) == IF a > b THEN a ELSE b

FirstByteFlipped(bytes) == [bytes EXCEPT ![1] = Xor(bytes[1], 1)]

LastByteFlipped(bytes) == [bytes EXCEPT ![Len(bytes)] = Xor(bytes[Len(bytes)], 128)]

\* the data block before masking, k - hLen - 1 bytes long
CraftedDb(kind, message, k) ==
  LET ps == Fill(k - Len(message) - 2 * HashLen - 2, 0)
  IN  CASE kind = "padded" -> LabelHash \o ps \o <<1>> \o message
        [] kind = "hashFirst" -> FirstByteFlipped(LabelHash) \o ps \o <<1>> \o message
        [] kind = "hashLast" -> LastByteFlipped(LabelHash) \o ps \o <<1>> \o message
        [] kind = "noMarker" -> LabelHash \o ps \o <<0>> \o Fill(Len(message), 0)
        [] kind = "otherMarker" -> LabelHash \o ps \o <<2>> \o message
        [] kind = "short" -> SubSeq(LabelHash, 1, Min(HashLen, Max(k - HashLen - 1, 0)))
        [] kind = "zeros" -> Fill(Max(k - HashLen - 1, 0), 0)

\* the block an encoder makes of a data block: lead, maskedSeed, maskedDB,
\* cut to k bytes
CraftedBlock(kind, message, k, seed, lead) ==
  IF kind = "zeros" THEN <<lead>> \o Fill(k - 1, 0)
  ELSE SubSeq(<<lead>> \o SubSeq(OaepEncoded(seed, xor(CraftedDb(kind, message, k),
                                                       mgf1(seed, Max(k - HashLen - 1, 0)))).out,
                                 2, 1 + HashLen + Max(k - HashLen - 1, 0)),
              1, k)

RequestBlock == CraftedBlock(req.kind, req.text, req.k, req.seed, req.lead)

OaepKinds == {"padded", "hashFirst", "hashLast", "noMarker", "otherMarker"}

\* messages: none, one byte, bytes with 0x00 and 0x01 inside
OaepMessages == { <<>>, <<65>>, <<1, 5, 1>>, <<0, 0, 1, 0>> }

MainModulusBytes == ModulusBytes(RsaKeys.main.n)
EdgeModulusBytes == ModulusBytes(RsaKeys.edge.n)
ShortModulusBytes == ModulusBytes(RsaKeys.short.n)

UnpadRequests ==
  [op : {"unpad"}, kind : OaepKinds, text : OaepMessages, k : {MainModulusBytes},
   seed : {SeedZero, SeedPattern}, lead : {0, 1}, key : {"main"}]
  \cup
  [op : {"unpad"}, kind : OaepKinds, text : { <<>> }, k : {EdgeModulusBytes},
   seed : {SeedPattern}, lead : {0, 128}, key : {"edge"}]
  \cup
  [op : {"unpad"}, kind : {"short", "zeros"}, text : { <<>> },
   k : {ShortModulusBytes, HashLen, HashLen + 1, HashLen + 8, 2 * HashLen + 1},
   seed : {SeedPattern}, lead : {0, 1}, key : {"short"}]

\* blocks with a leading 0x00, which are below every modulus of k bytes
OaepCipherRequests ==
  [op : {"decrypt"}, kind : OaepKinds, text : { <<1, 5, 1>> }, k : {MainModulusBytes},
   seed : {SeedPattern}, lead : {0}, key : {"main"}]
  \cup
  [op : {"decrypt"}, kind : {"zeros"}, text : { <<>> }, k : {ShortModulusBytes},
   seed : {SeedZero}, lead : {0}, key : {"short"}]

OaepRequests == UnpadRequests \cup OaepCipherRequests

InitOaep ==
  /\ pc = "start"
  /\ req \in OaepRequests
  /\ res = NoResult
  /\ res2 = NoResult

OaepUnpadCall ==
  /\ pc = "start"
  /\ req.op = "unpad"
  /\ res' = oaepUnpad(RequestBlock, req.k)
  /\ pc' = "unpadded"
  /\ UNCHANGED <<req, res2>>

\* the sender's side: the block as an integer, raised to e, as Base64
RsaRawEncryptCall ==
  /\ pc = "start"
  /\ req.op = "decrypt"
  /\ res' = RsaEncryptReturn([err |-> "", out |-> RequestBlock],
                             parsePublicKeyPEM(RsaKeys[req.key].publicKey), req.k, req.text)
  /\ pc' = "sent"
  /\ UNCHANGED <<req, res2>>

OaepDecryptCall ==
  /\ pc = "sent"
  /\ res.err = ""
  /\ res2' = rsaDecrypt(res.out, RsaKeys[req.key].privateKey)
  /\ pc' = "received"
  /\ UNCHANGED <<req, res>>

NextOaep ==
  \/ OaepUnpadCall
  \/ RsaRawEncryptCall
  \/ OaepDecryptCall

SpecOaep == InitOaep /\ [][NextOaep]_vars

\* ------------------------------------------------------------------------
\* Claims about OAEP decoding

RequestDb == CraftedDb(req.kind, req.text, req.k)

\* what came out of the decoding: of oaepUnpad called directly, or inside
\* rsaDecrypt
Decoded ==
  IF pc = "unpadded" THEN res
  ELSE [err |-> res2.err, out |-> res2.msgBytes]

DecodingDone == pc \in {"unpadded", "received"}

LeadingZero == req.k > 0 /\ req.lead = 0

LabelHashMatches == Len(RequestDb) >= HashLen /\ SubSeq(RequestDb, 1, HashLen) = LabelHash

\* the place (1-based) of the 0x01 marker after zero or more 0x00 bytes
MarkerPlaces ==
  { i \in (HashLen + 1)..Len(RequestDb) :
      RequestDb[i] = 1 /\ \A j \in (HashLen + 1)..(i - 1) : RequestDb[j] = 0 }

DecryptionErrors == {"FirstByteNotZero", "HashMismatch", "PaddingInvalid"}

\* C25: OAEP decoding accepts an encoded block only if its leading byte is
\* 0x00, the first hashLen bytes of the unmasked data block are the hash of
\* the empty label and after them come zero or more 0x00 bytes and a 0x01
\* marker; in every other case the decoding fails with a decryption error
\* and gives no plaintext, and on success the message is the bytes after the
\* first 0x01 marker.
C25_OaepDecoding ==
  DecodingDone =>
    /\ Decoded.err = "" <=> (LeadingZero /\ LabelHashMatches /\ MarkerPlaces # {})
    /\ Decoded.err # "" => Decoded.err \in DecryptionErrors /\ Decoded.out = <<>>
    /\ Decoded.err = "" =>
         \A i \in MarkerPlaces : Decoded.out = SubSeq(RequestDb, i + 1, Len(RequestDb))

\* the same for blocks of at least hLen + 1 bytes; a shorter block with a
\* leading 0x00 ends in the RangeError of mgf1's new Uint8Array(len)
C25_DecodingFromHashLenOn ==
  DecodingDone =>
    /\ Decoded.err = "" <=> (LeadingZero /\ LabelHashMatches /\ MarkerPlaces # {})
    /\ Decoded.err = "" =>
         \A i \in MarkerPlaces : Decoded.out = SubSeq(RequestDb, i + 1, Len(RequestDb))
    /\ Decoded.err # "" =>
         /\ Decoded.out = <<>>
         /\ Decoded.err \in DecryptionErrors <=> (req.k > HashLen \/ ~LeadingZero)
         /\ Decoded.err = "RangeError" <=> (req.k <= HashLen /\ LeadingZero)
         /\ req.lead # 0 => Decoded.err = "FirstByteNotZero"
         /\ (LeadingZero /\ req.k > HashLen /\ ~LabelHashMatches) => Decoded.err = "HashMismatch"
         /\ (LeadingZero /\ LabelHashMatches) => Decoded.err = "PaddingInvalid"
    /\ (pc = "received" /\ res2.err = "") => res2.out = utf8BytesToString(res2.msgBytes)

\* ------------------------------------------------------------------------
\* The useCrypto hook and the controls that call it.  res holds the state of
\* the hook; res2 what is under way outside it: the settled promise of
\* executeCrypto that runCrypto awaits, a key generation that has not come
\* back, and whether the user has touched the fields since the last
\* selectAlgorithm.  pc is "idle" between two events, "awaiting" while the
\* continuation of runCrypto is queued, "stuck" when a handler never returns.

NoError == "null"

AlgorithmOf(id) == CHOOSE a \in {ALGORITHMS[i] : i \in 1..Len(ALGORITHMS)} : a.id = id

HookStart ==
  [selectedAlgorithm |-> ALGORITHMS[1], mode |-> "encrypt", inputText |-> <<>>,
   outputText |-> <<>>, error |-> NoError, keyInputs |-> NoInputs, isLoading |-> FALSE]

NothingUnderWay == [promise |-> NoResult, keygen |-> "none", untouched |-> FALSE]

InitHook ==
  /\ pc = "idle"
  /\ req = NoResult
  /\ res = HookStart
  /\ res2 = NothingUnderWay

\* the algorithms the user picks in the Sidebar, as places in ALGORITHMS:
\* monoalphabetic, columnar, aes-cbc, rsa, hmac, sha1
HookAlgorithms == {1, 3, 5, 8, 9, 10}

\* what the user types as the text
HookTexts == {HelloText, <<81, 85, 74, 68>>}

\* what the user types into the input called name of the algorithm id
HookValues(id, name) ==
  IF name = "iv" THEN {IvText, IvWithAccent}
  ELSE IF name = "publicKey" THEN {RsaKeys.short.publicKey}
  ELSE IF name = "privateKey" THEN {RsaKeys.short.privateKey}
  ELSE IF id = "columnar" THEN {ZebraKey, KeyWithoutLetters}
  ELSE IF id = "aes-cbc" THEN {FipsKey}
  ELSE {ZebraKey}

\* { ...prev, [key]: value }
WithInput(inputs, name, value) ==
  [n \in DOMAIN inputs \cup {name} |-> IF n = name THEN value ELSE inputs[n]]

\* the inputs of names that are set
Only(inputs, names) == [n \in DOMAIN inputs \cap names |-> inputs[n]]

selectAlgorithm(state, algorithm) ==
  [state EXCEPT !.selectedAlgorithm = algorithm, !.inputText = <<>>, !.outputText = <<>>,
                !.error = NoError, !.keyInputs = NoInputs]

\* the Sidebar's button of an algorithm
SelectAlgorithm ==
  /\ pc = "idle"
  /\ \E i \in HookAlgorithms : res' = selectAlgorithm(res, ALGORITHMS[i])
  /\ res2' = [res2 EXCEPT !.untouched = TRUE]
  /\ UNCHANGED <<pc, req>>

\* the Toggle
SetMode ==
  /\ pc = "idle"
  /\ \E m \in DispatchModes : res' = [res EXCEPT !.mode = m]
  /\ UNCHANGED <<pc, req, res2>>

SetInputText ==
  /\ pc = "idle"
  /\ \E t \in HookTexts : res' = [res EXCEPT !.inputText = t]
  /\ res2' = [res2 EXCEPT !.untouched = FALSE]
  /\ UNCHANGED <<pc, req>>

\* an input of the KeyInputPanel, which shows the required inputs of the
\* selected algorithm
SetKeyInputValue ==
  /\ pc = "idle"
  /\ \E k \in 1..Len(res.selectedAlgorithm.requiredInputs) :
       \E value \in HookValues(res.selectedAlgorithm.id, res.selectedAlgorithm.requiredInputs[k]) :
         res' = [res EXCEPT !.keyInputs =
                   WithInput(@, res.selectedAlgorithm.requiredInputs[k], value)]
  /\ res2' = [res2 EXCEPT !.untouched = FALSE]
  /\ UNCHANGED <<pc, req>>

\* activeKeyInputs of runCrypto
ActiveKeyInputs(state) ==
  IF state.selectedAlgorithm.id = "rsa"
    THEN (IF state.mode = "encrypt" THEN Only(state.keyInputs, {"publicKey"})
          ELSE Only(state.keyInputs, {"privateKey"}))
  ELSE state.keyInputs

\* runCrypto up to its await: the Run button is disabled while isLoading
RunCryptoStart ==
  /\ pc = "idle"
  /\ ~res.isLoading
  /\ res' = [res EXCEPT !.error = NoError, !.outputText = <<>>, !.isLoading = TRUE]
  /\ res2' = [res2 EXCEPT
                !.promise = executeCrypto(res.selectedAlgorithm.id, res.mode, res.inputText,
                                          ActiveKeyInputs(res), SeedZero),
                !.untouched = FALSE]
  /\ pc' = IF res2'.promise = NeverReturns THEN "stuck" ELSE "awaiting"
  /\ UNCHANGED req

\* runCrypto from its await on: try, catch, finally
RunCryptoSettle ==
  /\ pc = "awaiting"
  /\ res' = IF res2.promise.err = ""
              THEN [res EXCEPT !.outputText = res2.promise.out, !.isLoading = FALSE]
            ELSE [res EXCEPT !.error = res2.promise.err, !.isLoading = FALSE]
  /\ res2' = [res2 EXCEPT !.promise = NoResult]
  /\ pc' = "idle"
  /\ UNCHANGED req

\* the button of the KeyInputPanel, shown for RSA: handleGenerateRsaKeys up
\* to its await
GenerateRsaKeysStart ==
  /\ pc = "idle"
  /\ res.selectedAlgorithm.id = "rsa"
  /\ res2.keygen = "none"
  /\ res2' = [res2 EXCEPT !.keygen = "generating", !.untouched = FALSE]
  /\ UNCHANGED <<pc, req, res>>

\* handleGenerateRsaKeys from its await on: the key pair arrives in a later
\* task, or generateRsaKeyPair throws and the error goes to the console
GenerateRsaKeysDone ==
  /\ pc = "idle"
  /\ res2.keygen = "generating"
  /\ \E ok \in BOOLEAN :
       res' = IF ok
                THEN [res EXCEPT !.keyInputs =
                        WithInput(WithInput(@, "publicKey", RsaKeys.short.publicKey),
                                  "privateKey", RsaKeys.short.privateKey)]
              ELSE res
  /\ res2' = [res2 EXCEPT !.keygen = "none"]
  /\ UNCHANGED <<pc, req>>

NextHook ==
  \/ SelectAlgorithm
  \/ SetMode
  \/ SetInputText
  \/ SetKeyInputValue
  \/ RunCryptoStart
  \/ RunCryptoSettle
  \/ GenerateRsaKeysStart
  \/ GenerateRsaKeysDone

SpecHook == InitHook /\ [][NextHook]_vars

\* the continuation of an await on a settled promise is a microtask: it runs
\* before the next event
SpecHookFair == SpecHook /\ WF_vars(RunCryptoSettle)

\* ------------------------------------------------------------------------
\* Claims about the hook

Loading == res.isLoading

RunStarts ==
  RunCryptoStart => (res'.error = NoError /\ res'.outputText = <<>> /\ res'.isLoading)

RunSettles ==
  RunCryptoSettle =>
    /\ ~res'.isLoading
    /\ res2.promise.err = "" =>
         (res'.outputText = res2.promise.out /\ res'.error = NoError)
    /\ res2.promise.err # "" =>
         (res'.error = res2.promise.err /\ res'.outputText = <<>>)

NotBothSet == ~(res.error # NoError /\ res.outputText # <<>>)

\* C26: every runCrypto first clears error and outputText and sets
\* isLoading, and eventually sets isLoading back to false; when it settles, a
\* success writes the result to outputText and leaves error null, a failure
\* writes the message to error and leaves outputText empty, so that error
\* and outputText are never both set.
C26_RunProtocol ==
  /\ [][RunStarts]_vars
  /\ [][RunSettles]_vars
  /\ []NotBothSet
  /\ (Loading ~> ~Loading)

\* the same, isLoading going back to false once executeCrypto has returned
C26_ProtocolOfReturnedRuns ==
  /\ [][RunStarts]_vars
  /\ [][RunSettles]_vars
  /\ []NotBothSet
  /\ ((Loading /\ pc # "stuck") ~> ~Loading)
  /\ [](pc = "stuck" => (Loading /\ res.selectedAlgorithm.id = "columnar" /\ res.mode = "encrypt"
                           /\ cleanKey(res.keyInputs.key) = <<>>))

Cleared ==
  /\ res.inputText = <<>>
  /\ res.outputText = <<>>
  /\ res.error = NoError
  /\ res.keyInputs = NoInputs

\* C27: after selectAlgorithm, inputText, outputText, error and keyInputs
\* stay cleared until the user next edits them or invokes runCrypto: nothing
\* that was started before and is still pending writes into the state of
\* the newly selected algorithm; selectAlgorithm leaves mode unchanged.
C27_StaysCleared ==
  /\ [](res2.untouched => Cleared)
  /\ [][SelectAlgorithm => res'.mode = res.mode]_vars

GeneratedInputs ==
  [publicKey |-> RsaKeys.short.publicKey, privateKey |-> RsaKeys.short.privateKey]

\* what does hold: no runCrypto is pending when an algorithm is selected,
\* the text fields and the error stay cleared, and the key inputs hold
\* nothing but the key pair of a generation started before
C27_ClearedButGeneratedKeys ==
  /\ [][SelectAlgorithm => (res2.promise = NoResult /\ res'.mode = res.mode)]_vars
  /\ [](res2.untouched =>
          /\ res.inputText = <<>> /\ res.outputText = <<>> /\ res.error = NoError
          /\ res.keyInputs \in {NoInputs, GeneratedInputs}
          /\ res2.promise = NoResult)
====
